---- MODULE Spec2Model ----
(***************************************************************************)
(* A model of scripts/compile_manifests.py of fleet-manager-gitops: the    *)
(* manifest compiler that turns a Container Definition and an optional     *)
(* Runtime Configuration into an Application Manifest with an embedded     *)
(* cloud-init user_data script, and the batch loop of main() that writes   *)
(* one output document per container-definition file.                      *)
(*                                                                         *)
(* Python values are tagged tuples, so that None, 0, "" and a missing key  *)
(* stay distinct and truthiness is computed as Python computes it:         *)
(*   <<"none">>  <<"int", n>>  <<"bool", b>>  <<"str", s>>                 *)
(*   <<"text", lines>>   a str of lines, each ended by a line break        *)
(*   <<"list", seq>>     <<"dict", f>>  (f a function on string keys)      *)
(***************************************************************************)
EXTENDS Integers, Sequences, FiniteSets, TLC

VARIABLES
    \* scripts/compile_manifests.py, main
    container_files,   \* glob result: sequence of [base, content] (main:289)
    generic_runtime,   \* content of runtime_configuration/runtime.yaml, or Absent
    per_app_runtime,   \* stem -> content of <stem>.runtime.yaml, or Absent
    unwritable,        \* output paths whose open(..., 'w') fails
    out_dir,           \* output directory: file name -> written document, or Absent
    run,               \* "first" or "second" invocation of main on these files
    first_written,     \* the documents the first invocation wrote, in loop order
    i,                 \* position of the for loop of main over container_files
    compiled,          \* main's counter of compiled files
    main_container_def,  \* main's container_def as it stands after that call
    main_runtime_def,    \* main's runtime_def as it stands after that call
    app,               \* the dict returned by the latest to_application call
    cloud_init,        \* merged_cloud_init of that call, as passed on at line 133
    stdout,            \* what main has printed so far
    pc,                \* "start", "loop", "done" (main returned 0), "raised"
    \* scripts/deploy.py, FleetManagerGitOps.run
    repo_files,        \* working tree: path -> type of the document there, or Absent
    git_changed,       \* what get_changed_files returns (sorted, line 202)
    run_env,           \* [only_compile, api_ok]: the flag and the GET /clusters outcome
    changed_files,     \* run's local changed_files
    application_files, \* run's local application_files
    processed,         \* the process_manifest calls made: sequence of [file, ok]
    run_result,        \* what run returned, NotReturned before
    run_pc,            \* "start", "process", "returned"
    \* scripts/deploy.py, FleetManagerGitOps.process_manifest
    pm_input,          \* the file, its document, the resolved group_names, the skip flag
    remote_app,        \* the application of that name at the Fleet Manager, or NoApplication
    remote_deps,       \* the groups for which the deployment <app>-<group> exists there
    existing_app,      \* what get_deployment_application returned (NoApplication for None)
    content_changed,   \* process_manifest's local content_changed
    api_calls,         \* the calls made so far, each with its outcome
    pm_k,              \* position of the loop over group_names
    pm_all_ok,         \* process_manifest's local all_ok
    pm_result,         \* what process_manifest returned, NotReturned before
    pm_pc,             \* "start", "deployments", "returned"
    \* scripts/deploy.py, get_deployment_application and find_deployment
    pages,             \* the server's pages: page number -> [names, next]
    failing,           \* the page the request for which raises, 0 for none
    lookup_fn,         \* which of the two functions runs
    url,               \* the local url: a page number, 0 when falsy
    fetched,           \* the pages requested so far
    refetched,         \* a page was requested that had been requested before
    lookup_result,     \* what the function returned, NotReturned before
    lookup_pc,         \* "loop", "returned"
    \* scripts/cleanup-test-apps.py and scripts/full-test-cleanup.py
    cl_script,         \* which of the two scripts runs
    cl_args,           \* the arguments --execute and --no-vm-cleanup
    fm_apps,           \* the names of the applications at the Fleet Manager
    fm_deps,           \* the names of the deployments at the Fleet Manager
    fm_before,         \* both as they were when the script started
    get_status,        \* the status of the two list requests
    test_apps,         \* the local test_apps
    test_deployments,  \* the local test_deployments
    cl_log,            \* the requests, deployments and temporary files made so far
    cl_k,              \* position of the loop that runs
    cl_pc,             \* "start", "vm cleanup", "delete", "returned", "raised"
    \* scripts/test-deploy.py and scripts/deploy-with-test-mode.py
    td_script,         \* which of the two scripts runs
    test_mode,         \* TestModeDeployer.test_mode (test-deploy.py: always)
    test_cluster_group,  \* the argument --test-cluster-group
    manifest_path,     \* the manifest path given
    td_files,          \* the files: path -> document, or Absent
    td_original,       \* the document of the manifest file when the script started
    test_manifest_path,  \* the local test_manifest_path, NoPath before it is set
    td_result,         \* what the function returned, NotReturned before
    td_pc,             \* "start", "deploy", "returned", "raised"
    \* scripts/monitor_deployment_releases.py, DeploymentReleaseMonitor
    deployment_ids,    \* the ids given to report_deployment_results
    details_ok,        \* id -> whether get_deployment_details returns the details
    timeout_minutes,   \* the argument --timeout
    check_interval,    \* the argument --interval
    mon_k,             \* position of the loop over deployment_ids
    monitoring,        \* monitor_deployment is in its while loop
    elapsed,           \* time.time() - start_time, in seconds
    latest,            \* the status of the latest release at the latest poll
    results,           \* report_deployment_results' dict results
    summary,           \* the summary returned
    mon_pc,            \* "monitor", "reported"
    \* scripts/manage-lifecycle.py, LifecycleManager
    lc_before,         \* the manifest file before the calls
    lc_file,           \* the manifest file
    new_state,         \* the argument new_state of set_lifecycle_state
    lc_set,            \* what set_lifecycle_state returned
    lc_manifest,       \* the manifest yaml.safe_load returned to the reader
    lc_state,          \* what get_lifecycle_state returned, or "raised"
    lc_pc              \* "start", "set", "got"

compile_vars ==
    <<container_files, generic_runtime, per_app_runtime, unwritable,
      out_dir, run, first_written, i, compiled, main_container_def, main_runtime_def,
      app, cloud_init, stdout, pc>>

run_vars ==
    <<repo_files, git_changed, run_env, changed_files, application_files,
      processed, run_result, run_pc>>

pm_vars ==
    <<pm_input, remote_app, remote_deps, existing_app, content_changed, api_calls,
      pm_k, pm_all_ok, pm_result, pm_pc>>

lookup_vars ==
    <<pages, failing, lookup_fn, url, fetched, refetched, lookup_result, lookup_pc>>

cleanup_vars ==
    <<cl_script, cl_args, fm_apps, fm_deps, fm_before, get_status, test_apps,
      test_deployments, cl_log, cl_k, cl_pc>>

testdeploy_vars ==
    <<td_script, test_mode, test_cluster_group, manifest_path, td_files, td_original, test_manifest_path,
      td_result, td_pc>>

monitor_vars ==
    <<deployment_ids, details_ok, timeout_minutes, check_interval, mon_k, monitoring,
      elapsed, latest, results, summary, mon_pc>>

lifecycle_vars == <<lc_before, lc_file, new_state, lc_set, lc_manifest, lc_state, lc_pc>>

vars == <<compile_vars, run_vars, pm_vars, lookup_vars, cleanup_vars, testdeploy_vars,
          monitor_vars, lifecycle_vars>>

\* a script that is not the one running has no state: its variables stay at rest
AtRest == <<"at rest">>

compile_at_rest ==
    /\ container_files = AtRest /\ generic_runtime = AtRest /\ per_app_runtime = AtRest
    /\ unwritable = AtRest /\ out_dir = AtRest /\ run = AtRest /\ first_written = AtRest
    /\ i = AtRest /\ compiled = AtRest /\ main_container_def = AtRest
    /\ main_runtime_def = AtRest /\ app = AtRest /\ cloud_init = AtRest
    /\ stdout = AtRest /\ pc = AtRest

run_at_rest ==
    /\ repo_files = AtRest /\ git_changed = AtRest /\ run_env = AtRest
    /\ changed_files = AtRest /\ application_files = AtRest /\ processed = AtRest
    /\ run_result = AtRest /\ run_pc = AtRest

pm_at_rest ==
    /\ pm_input = AtRest /\ remote_app = AtRest /\ remote_deps = AtRest
    /\ existing_app = AtRest /\ content_changed = AtRest /\ api_calls = AtRest
    /\ pm_k = AtRest /\ pm_all_ok = AtRest /\ pm_result = AtRest /\ pm_pc = AtRest

lookup_at_rest ==
    /\ pages = AtRest /\ failing = AtRest /\ lookup_fn = AtRest /\ url = AtRest
    /\ fetched = AtRest /\ refetched = AtRest /\ lookup_result = AtRest
    /\ lookup_pc = AtRest

cleanup_at_rest ==
    /\ cl_script = AtRest /\ cl_args = AtRest /\ fm_apps = AtRest /\ fm_deps = AtRest
    /\ fm_before = AtRest /\ get_status = AtRest /\ test_apps = AtRest
    /\ test_deployments = AtRest /\ cl_log = AtRest /\ cl_k = AtRest /\ cl_pc = AtRest

testdeploy_at_rest ==
    /\ td_script = AtRest /\ test_mode = AtRest /\ test_cluster_group = AtRest
    /\ manifest_path = AtRest
    /\ td_files = AtRest /\ td_original = AtRest /\ test_manifest_path = AtRest
    /\ td_result = AtRest /\ td_pc = AtRest

monitor_at_rest ==
    /\ deployment_ids = AtRest /\ details_ok = AtRest /\ timeout_minutes = AtRest
    /\ check_interval = AtRest /\ mon_k = AtRest /\ monitoring = AtRest
    /\ elapsed = AtRest /\ latest = AtRest /\ results = AtRest /\ summary = AtRest
    /\ mon_pc = AtRest

lifecycle_at_rest ==
    /\ lc_before = AtRest /\ lc_file = AtRest /\ new_state = AtRest /\ lc_set = AtRest
    /\ lc_manifest = AtRest /\ lc_state = AtRest /\ lc_pc = AtRest

not_compile ==
    <<run_vars, pm_vars, lookup_vars, cleanup_vars, testdeploy_vars,
      monitor_vars, lifecycle_vars>>
not_run ==
    <<compile_vars, pm_vars, lookup_vars, cleanup_vars, testdeploy_vars,
      monitor_vars, lifecycle_vars>>
not_pm ==
    <<compile_vars, run_vars, lookup_vars, cleanup_vars, testdeploy_vars,
      monitor_vars, lifecycle_vars>>
not_lookup ==
    <<compile_vars, run_vars, pm_vars, cleanup_vars, testdeploy_vars,
      monitor_vars, lifecycle_vars>>
not_cleanup ==
    <<compile_vars, run_vars, pm_vars, lookup_vars, testdeploy_vars,
      monitor_vars, lifecycle_vars>>
not_testdeploy ==
    <<compile_vars, run_vars, pm_vars, lookup_vars, cleanup_vars,
      monitor_vars, lifecycle_vars>>
not_monitor ==
    <<compile_vars, run_vars, pm_vars, lookup_vars, cleanup_vars,
      testdeploy_vars, lifecycle_vars>>
not_lifecycle ==
    <<compile_vars, run_vars, pm_vars, lookup_vars, cleanup_vars,
      testdeploy_vars, monitor_vars>>

----------------------------------------------------------------------------
(* Python values *)

PyNone == <<"none">>
PyInt(n) == <<"int", n>>
PyBool(b) == <<"bool", b>>
PyStr(s) == <<"str", s>>
PyText(ls) == <<"text", ls>>
PyList(xs) == <<"list", xs>>
PyDict(f) == <<"dict", f>>
EmptyDict == PyDict(<<>>)
EmptyList == PyList(<<>>)

IsDict(v) == v[1] = "dict"
IsList(v) == v[1] = "list"

\* bool(v)
Truthy(v) ==
    CASE v[1] = "none" -> FALSE
      [] v[1] = "int"  -> v[2] # 0
      [] v[1] = "bool" -> v[2]
      [] v[1] = "str"  -> v[2] # ""
      [] v[1] = "text" -> TRUE
      [] v[1] = "list" -> Len(v[2]) > 0
      [] v[1] = "dict" -> DOMAIN v[2] # {}

\* a or b
Or(a, b) == IF Truthy(a) THEN a ELSE b

\* k in d
Has(d, k) == k \in DOMAIN d[2]

\* d.get(k, default)
Get(d, k, default) == IF Has(d, k) THEN d[2][k] ELSE default

\* d.get(k)
GetN(d, k) == Get(d, k, PyNone)

\* {**a, **b}, and a.update(b) on a copy of a
Update(a, b) ==
    PyDict([k \in (DOMAIN a[2]) \cup (DOMAIN b[2]) |->
              IF k \in DOMAIN b[2] THEN b[2][k] ELSE a[2][k]])

\* d[k] = v
SetItem(d, k, v) ==
    PyDict([x \in (DOMAIN d[2]) \cup {k} |-> IF x = k THEN v ELSE d[2][x]])

RECURSIVE JoinStr(_, _)
\* sep.join(xs) for a sequence of strings
JoinStr(xs, sep) ==
    IF Len(xs) = 0 THEN ""
    ELSE IF Len(xs) = 1 THEN xs[1]
    ELSE xs[1] \o sep \o JoinStr(Tail(xs), sep)

\* str(v), as an f-string renders v
Str(v) ==
    CASE v[1] = "none" -> "None"
      [] v[1] = "int"  -> ToString(v[2])
      [] v[1] = "bool" -> IF v[2] THEN "True" ELSE "False"
      [] v[1] = "str"  -> v[2]
      [] v[1] = "text" -> JoinStr(v[2], "\n") \o "\n"
      [] OTHER         -> "<object>"

\* s.splitlines() of a str value
SplitLines(v) ==
    CASE v[1] = "text" -> v[2]
      [] v[1] = "str"  -> IF v[2] = "" THEN <<>> ELSE <<v[2]>>

RECURSIVE Flatten(_)
\* the concatenation of a sequence of sequences (halving keeps the nesting low)
Flatten(seqs) ==
    IF Len(seqs) = 0 THEN <<>>
    ELSE IF Len(seqs) = 1 THEN seqs[1]
    ELSE LET h == Len(seqs) \div 2
         IN  Flatten(SubSeq(seqs, 1, h)) \o Flatten(SubSeq(seqs, h + 1, Len(seqs)))

----------------------------------------------------------------------------
(* to_application: the settings merger (compile_manifests.py:43-81) *)

\* (runtime_def.get('spec', {}) or {}) if runtime_def else {}
RuntimeSpec(runtime_def) ==
    IF Truthy(runtime_def)
    THEN Or(Get(runtime_def, "spec", EmptyDict), EmptyDict)
    ELSE EmptyDict

runtime_defaults(runtime_def) == Get(RuntimeSpec(runtime_def), "runtime", EmptyDict)
network(runtime_def) == Get(RuntimeSpec(runtime_def), "network", EmptyList)
vm_state(runtime_def) == Get(RuntimeSpec(runtime_def), "vmState", PyStr("running"))
policies(runtime_def) == Get(RuntimeSpec(runtime_def), "policies", EmptyDict)

container_runtime(container_def) ==
    Get(Or(Get(container_def, "spec", EmptyDict), EmptyDict), "runtime", EmptyDict)
containers(container_def) ==
    Get(Get(container_def, "spec", EmptyDict), "containers", EmptyList)
content(container_def) ==
    Get(Get(container_def, "spec", EmptyDict), "content", EmptyList)

\* container_runtime.get('vcpus') or runtime_defaults.get('vcpus', 2)
vcpus(container_def, runtime_def) ==
    Or(GetN(container_runtime(container_def), "vcpus"),
       Get(runtime_defaults(runtime_def), "vcpus", PyInt(2)))

\* container_runtime.get('memory') or runtime_defaults.get('memory', '2Gi')
memory(container_def, runtime_def) ==
    Or(GetN(container_runtime(container_def), "memory"),
       Get(runtime_defaults(runtime_def), "memory", PyStr("2Gi")))

disk_cfg_defaults(runtime_def) ==
    Or(Get(runtime_defaults(runtime_def), "disk", EmptyDict), EmptyDict)
disk_cfg_overrides(container_def) ==
    Or(Get(container_runtime(container_def), "disk", EmptyDict), EmptyDict)

\* a slip in line 61: {**disk_cfg_overrides, **disk_cfg_defaults}
merged_disk_defaults_last(container_def, runtime_def) ==
    Update(disk_cfg_overrides(container_def), disk_cfg_defaults(runtime_def))

\* {**disk_cfg_defaults, **disk_cfg_overrides}
merged_disk(container_def, runtime_def) ==
    Update(disk_cfg_defaults(runtime_def), disk_cfg_overrides(container_def))

disk_name(md) == Get(md, "name", PyStr("rootdisk"))
disk_capacity(md) == Get(md, "capacity", PyStr("40Gi"))
\* a slip in line 64: merged_disk.get('url') or merged_disk.get('imageUrl')
disk_image_url_first(md) == Or(GetN(md, "url"), GetN(md, "imageUrl"))

\* merged_disk.get('imageUrl') or merged_disk.get('url')
disk_image(md) == Or(GetN(md, "imageUrl"), GetN(md, "url"))
disk_format(md) == Get(md, "format", PyStr("raw"))

\* (runtime_def.get('spec', {}).get('cloudInit') if runtime_def else {}) or {}
rc_cloud(runtime_def) ==
    Or(IF Truthy(runtime_def)
       THEN GetN(Get(runtime_def, "spec", EmptyDict), "cloudInit")
       ELSE EmptyDict, EmptyDict)

\* a slip in lines 73-78: the convenience fields do not replace what the
\* container's own cloudInit already sets
ct_cloud_own_first(container_def) ==
    LET spec == Get(container_def, "spec", EmptyDict)
        own  == Or(GetN(spec, "cloudInit"), EmptyDict)
        withUsers == IF Truthy(GetN(spec, "users")) /\ ~Has(own, "users")
                     THEN SetItem(own, "users", spec[2]["users"]) ELSE own
    IN  IF Truthy(GetN(spec, "chpasswd")) /\ ~Has(own, "chpasswd")
        THEN SetItem(withUsers, "chpasswd", spec[2]["chpasswd"]) ELSE withUsers

\* ct_cloud after lines 73-78: the container's own cloudInit, then the
\* top-level users / chpasswd of the container spec assigned over it
ct_cloud(container_def) ==
    LET spec == Get(container_def, "spec", EmptyDict)
        own  == Or(IF Truthy(container_def) THEN GetN(spec, "cloudInit")
                   ELSE EmptyDict, EmptyDict)
        withUsers == IF Truthy(GetN(spec, "users"))
                     THEN SetItem(own, "users", spec[2]["users"]) ELSE own
    IN  IF Truthy(GetN(spec, "chpasswd"))
        THEN SetItem(withUsers, "chpasswd", spec[2]["chpasswd"]) ELSE withUsers

\* a slip in lines 80-81: the two updates in the other order
merged_cloud_init_container_last(container_def, runtime_def) ==
    Update(Update(EmptyDict, rc_cloud(runtime_def)), ct_cloud(container_def))

\* merged_cloud_init = {}; .update(ct_cloud); .update(rc_cloud)
merged_cloud_init(container_def, runtime_def) ==
    Update(Update(EmptyDict, ct_cloud(container_def)), rc_cloud(runtime_def))

\* container_def once to_application has returned: ct_cloud is the container's
\* own spec.cloudInit mapping whenever that is non-empty (line 73 takes a new
\* `{}` only for an empty or missing one), so lines 76 and 78 write into it
ContainerDefAfterCall(container_def) ==
    LET spec == Get(container_def, "spec", EmptyDict)
    IN  IF Truthy(GetN(spec, "cloudInit"))
        THEN SetItem(container_def, "spec",
                     SetItem(spec, "cloudInit", ct_cloud(container_def)))
        ELSE container_def

\* hostname = name or 'vm'; LiteralString of the two meta_data lines
MetaData(name) ==
    PyText(<<"dsmode: local",
             "local-hostname: \"" \o Str(Or(name, PyStr("vm"))) \o "\"">>)

DefaultNetwork == PyList(<<PyDict([name |-> PyStr("eth0"), type |-> PyStr("virtio")])>>)

\* a slip in line 119: an empty network list is taken as it is
network_devices_no_default(runtime_def) ==
    LET ns == network(runtime_def)[2]
    IN  [j \in 1..Len(ns) |->
           [name |-> Get(ns[j], "name", PyStr("eth0")),
            type |-> Get(ns[j], "type", PyStr("virtio"))]]

network_devices(runtime_def) ==
    LET ns == Or(network(runtime_def), DefaultNetwork)[2]
    IN  [j \in 1..Len(ns) |->
           [name |-> Get(ns[j], "name", PyStr("eth0")),
            type |-> Get(ns[j], "type", PyStr("virtio"))]]

----------------------------------------------------------------------------
(* _container_quadlet_user_data: the cloud-init script generator           *)
(* (compile_manifests.py:137-277).  A line is a string; the returned text  *)
(* is the sequence of its pieces, a line break being the piece NL.         *)

NL == "\n"

\* 'true' if v else 'false'
BoolToken(v) == IF Truthy(v) THEN "true" ELSE "false"

MapStr(xs) == [j \in 1..Len(xs) |-> Str(xs[j])]

\* lines 144-148
SshLines(ci) ==
    LET ssh == Or(GetN(ci, "ssh"), EmptyDict)
    IN  (IF Has(ssh, "passwordAuth")
         THEN <<"ssh_pwauth: " \o BoolToken(GetN(ssh, "passwordAuth"))>> ELSE <<>>)
        \o
        (IF Has(ssh, "disableRoot")
         THEN <<"disable_root: " \o BoolToken(GetN(ssh, "disableRoot"))>> ELSE <<>>)

\* lines 155-168, one user
UserLines(u) ==
    LET aks == Or(GetN(u, "sshAuthorizedKeys"), EmptyList)[2]
    IN  <<"  - name: " \o Str(GetN(u, "name"))>>
        \o (IF Truthy(GetN(u, "groups"))
            THEN <<"    groups: [" \o JoinStr(MapStr(GetN(u, "groups")[2]), ", ") \o "]">>
            ELSE <<>>)
        \o (IF Truthy(GetN(u, "sudo"))
            THEN <<"    sudo: " \o Str(GetN(u, "sudo"))>> ELSE <<>>)
        \o (IF Truthy(GetN(u, "shell"))
            THEN <<"    shell: " \o Str(GetN(u, "shell"))>> ELSE <<>>)
        \o (IF Len(aks) > 0
            THEN <<"    ssh-authorized-keys:">>
                 \o [j \in 1..Len(aks) |-> "      - " \o Str(aks[j])]
            ELSE <<>>)

\* lines 151-168
UsersLines(ci) ==
    LET users == IF IsList(GetN(ci, "users")) THEN GetN(ci, "users")[2] ELSE <<>>
    IN  IF Len(users) > 0
        THEN <<"users:">> \o Flatten([j \in 1..Len(users) |-> UserLines(users[j])])
        ELSE <<>>

\* lines 175-183
ChpasswdLines(ci) ==
    LET chpwd == GetN(ci, "chpasswd")
    IN  IF IsDict(chpwd)
        THEN <<"chpasswd:">>
             \o (IF Has(chpwd, "list")
                 THEN LET lns == SplitLines(GetN(chpwd, "list"))
                      IN  <<"  list: |">> \o [j \in 1..Len(lns) |-> "    " \o lns[j]]
                 ELSE <<>>)
             \o (IF Has(chpwd, "expire")
                 THEN <<"  expire: " \o BoolToken(GetN(chpwd, "expire"))>> ELSE <<>>)
        ELSE <<>>

\* a slip in line 193: a policy flag that is not listed counts as off
BasePrepLines_socket_off_by_default(pol) ==
    (IF Truthy(Get(pol, "enablePodmanSocket", PyBool(FALSE)))
     THEN <<"  - systemctl enable podman.socket">> ELSE <<>>)
    \o (IF Truthy(Get(pol, "enableAutoUpdateTimer", PyBool(TRUE)))
        THEN <<"  - systemctl enable --now podman-auto-update.timer">> ELSE <<>>)
    \o <<"  - mkdir -p /etc/containers/systemd", "  - mkdir -p /var/edge/www">>

\* lines 199-204
BasePrepLines(pol) ==
    (IF Truthy(Get(pol, "enablePodmanSocket", PyBool(TRUE)))
     THEN <<"  - systemctl enable podman.socket">> ELSE <<>>)
    \o (IF Truthy(Get(pol, "enableAutoUpdateTimer", PyBool(TRUE)))
        THEN <<"  - systemctl enable --now podman-auto-update.timer">> ELSE <<>>)
    \o <<"  - mkdir -p /etc/containers/systemd", "  - mkdir -p /var/edge/www">>

\* a slip in lines 210-214: the chmod is emitted before the file is written
ContentItemLines_chmod_first(item) ==
    LET path == Str(GetN(item, "path"))
        mode == Str(Get(item, "mode", PyStr("0644")))
        data == SplitLines(Get(item, "data", PyStr("")))
    IN  <<"  - |", "    chmod " \o mode \o " " \o path, "    cat <<'EOF' > " \o path>>
        \o [j \in 1..Len(data) |-> "    " \o data[j]]
        \o <<"    EOF">>

\* lines 207-214, one content item
ContentItemLines(item) ==
    LET path == Str(GetN(item, "path"))
        mode == Str(Get(item, "mode", PyStr("0644")))
        data == SplitLines(Get(item, "data", PyStr("")))
    IN  <<"  - |", "    cat <<'EOF' > " \o path>>
        \o [j \in 1..Len(data) |-> "    " \o data[j]]
        \o <<"    EOF", "    chmod " \o mode \o " " \o path>>

\* a slip in line 232: the relabel suffix is written for every mount
VolumeLine_relabel_always(m) ==
    "    Volume=" \o Str(GetN(m, "hostPath")) \o ":" \o Str(GetN(m, "mountPath")) \o ":Z"

\* lines 230-233, one mount
VolumeLine(m) ==
    "    Volume=" \o Str(GetN(m, "hostPath")) \o ":" \o Str(GetN(m, "mountPath"))
        \o (IF Truthy(GetN(m, "selinuxRelabel")) THEN ":Z" ELSE "")

UnitPath(c) == "/etc/containers/systemd/" \o Str(Get(c, "name", PyStr("app"))) \o ".container"

\* lines 217-241, one container
ContainerUnitLines(c, auto_update_label) ==
    LET ports  == Get(c, "ports", EmptyList)[2]
        mounts == Get(c, "mounts", EmptyList)[2]
        env    == Get(c, "env", EmptyList)[2]
    IN  <<"  - |", "    cat <<'EOF' > " \o UnitPath(c), "    [Container]",
          "    Image=" \o Str(GetN(c, "image"))>>
        \o [j \in 1..Len(ports) |-> "    PublishPort=" \o Str(ports[j])]
        \o [j \in 1..Len(mounts) |-> VolumeLine(mounts[j])]
        \o [j \in 1..Len(env) |->
              "    Environment=" \o Str(GetN(env[j], "name")) \o "="
                 \o Str(GetN(env[j], "value"))]
        \o (IF Truthy(auto_update_label)
            THEN <<"    Label=io.containers.autoupdate=registry">> ELSE <<>>)
        \o <<"", "    [Install]", "    WantedBy=multi-user.target", "    EOF">>

RestartLine(c) == "  - systemctl restart " \o Str(Get(c, "name", PyStr("app"))) \o ".service"

\* a slip in lines 243-245: the restarts are emitted before the daemon-reload
ReloadAndRestartLines_reload_last(cs) ==
    [j \in 1..Len(cs) |-> RestartLine(cs[j])] \o <<"  - systemctl daemon-reload">>

\* lines 243-245
ReloadAndRestartLines(cs) ==
    <<"  - systemctl daemon-reload">> \o [j \in 1..Len(cs) |-> RestartLine(cs[j])]

\* the guest-agent steps of lines 249-273, which end with the override drop-in
GuestAgentSetupLines ==
         <<"  - transactional-update --non-interactive pkg install qemu-guest-agent || true",
           "  - mkdir -p /etc/systemd/system",
           "  - |",
           "    cat <<'EOF' > /etc/systemd/system/enable-qemu-guest-agent.service",
           "    [Unit]",
           "    Description=Enable qemu-guest-agent post-reboot",
           "    After=multi-user.target",
           "",
           "    [Service]",
           "    Type=oneshot",
           "    ExecStart=/usr/bin/systemctl enable --now qemu-guest-agent.service",
           "    RemainAfterExit=yes",
           "",
           "    [Install]",
           "    WantedBy=multi-user.target",
           "    EOF",
           "  - systemctl enable enable-qemu-guest-agent.service || true",
           "  - mkdir -p /etc/systemd/system/qemu-guest-agent.service.d",
           "  - |",
           "    cat <<'EOF' > /etc/systemd/system/qemu-guest-agent.service.d/override.conf",
           "    [Unit]",
           "    Requires=",
           "    After=",
           "    EOF">>

\* a slip in line 248: the package install is emitted whatever the policy is
GuestAgentLines_install_always(pol) ==
    IF Truthy(Get(pol, "setupQemuGuestAgent", PyBool(TRUE)))
    THEN GuestAgentSetupLines
         \o (IF Truthy(Get(pol, "rebootAfterQga", PyBool(TRUE)))
             THEN <<"  - reboot">> ELSE <<>>)
    ELSE <<GuestAgentSetupLines[1]>>

\* a slip in lines 274-275: the reboot is emitted before the guest-agent steps
GuestAgentLines_reboot_first(pol) ==
    IF Truthy(Get(pol, "setupQemuGuestAgent", PyBool(TRUE)))
    THEN (IF Truthy(Get(pol, "rebootAfterQga", PyBool(TRUE)))
          THEN <<"  - reboot">> ELSE <<>>)
         \o GuestAgentSetupLines
    ELSE <<>>

\* lines 248-275
GuestAgentLines(pol) ==
    IF Truthy(Get(pol, "setupQemuGuestAgent", PyBool(TRUE)))
    THEN GuestAgentSetupLines
         \o (IF Truthy(Get(pol, "rebootAfterQga", PyBool(TRUE)))
             THEN <<"  - reboot">> ELSE <<>>)
    ELSE <<>>

\* the list `lines` at line 277, before it is joined
UserDataLines(cs, items, ci_arg, pols) ==
    LET ci  == Or(ci_arg, EmptyDict)
        pol == Or(pols, EmptyDict)
        cl  == Or(cs, EmptyList)[2]
        il  == Or(items, EmptyList)[2]
        aul == Get(pol, "autoUpdateLabel", PyBool(TRUE))
    IN  <<"#cloud-config">>
        \o SshLines(ci)
        \o UsersLines(ci)
        \o ChpasswdLines(ci)
        \o <<"write_files: []", "runcmd:">>
        \o BasePrepLines(pol)
        \o Flatten([j \in 1..Len(il) |-> ContentItemLines(il[j])])
        \o Flatten([j \in 1..Len(cl) |-> ContainerUnitLines(cl[j], aul)])
        \o ReloadAndRestartLines(cl)
        \o GuestAgentLines(pol)

\* "\n".join(lines): the pieces of the joined text; a line break stands between
\* two lines, and an empty line has no piece of its own
JoinLines(lines) ==
    Flatten([j \in 1..Len(lines) |->
               (IF lines[j] = "" THEN <<>> ELSE <<lines[j]>>)
               \o (IF j < Len(lines) THEN <<NL>> ELSE <<>>)])

\* a slip in line 277: every line is ended by a line break, and one more is added
container_quadlet_user_data_two_breaks(cs, items, ci_arg, pols) ==
    JoinLines(UserDataLines(cs, items, ci_arg, pols) \o <<"">>) \o <<NL>>

\* "\n".join(lines) + "\n"
container_quadlet_user_data(cs, items, ci_arg, pols) ==
    JoinLines(UserDataLines(cs, items, ci_arg, pols)) \o <<NL>>

----------------------------------------------------------------------------
(* to_application: the manifest assembler (compile_manifests.py:83-134) *)

\* another revision's resource naming: <name>-domain
ResourceName_domain_suffix(name) == PyStr(Str(name) \o "-domain")

\* 'name': name of the virdomain resource, line 104
ResourceName(name) == name

USER_DATA_PLACEHOLDER == PyStr("__USER_DATA_PLACEHOLDER__")
RenderedKey == "__rendered_user_data__"

\* The calls of to_application that end in an exception (AttributeError or
\* TypeError): a .get on a value that is no mapping, a loop over a value that
\* is no sequence, splitlines on a value that is no str.
ToApplicationRaises(container_def, runtime_def) ==
    \/ ~IsDict(container_def)                                     \* line 44
    \/ ~IsDict(Get(container_def, "metadata", EmptyDict))         \* line 44
    \/ (Truthy(runtime_def) /\ ~IsDict(runtime_def))              \* line 47
    \/ ~IsDict(RuntimeSpec(runtime_def))                          \* line 47
    \/ ~IsDict(Get(container_def, "spec", EmptyDict))             \* line 53
    \/ ~IsDict(runtime_defaults(runtime_def))                     \* line 57
    \/ ~IsDict(container_runtime(container_def))                  \* line 57
    \/ (Truthy(runtime_def) /\ ~IsDict(Get(runtime_def, "spec", EmptyDict)))  \* line 72
    \/ LET il == Or(content(container_def), EmptyList)
           cl == Or(containers(container_def), EmptyList)
       IN  \/ ~IsList(il) \/ ~IsList(cl)                          \* lines 206, 216
           \/ \E j \in 1..Len(il[2]) :                            \* lines 207-212
                \/ ~IsDict(il[2][j])
                \/ Get(il[2][j], "data", PyStr(""))[1] \notin {"str", "text"}
           \/ \E j \in 1..Len(cl[2]) :                            \* lines 217-235
                \/ ~IsDict(cl[2][j])
                \/ ~IsList(Get(cl[2][j], "ports", EmptyList))
                \/ ~IsList(Get(cl[2][j], "mounts", EmptyList))
                \/ ~IsList(Get(cl[2][j], "env", EmptyList))

\* the dict returned at line 134
to_application(container_def, runtime_def) ==
    LET md   == Get(container_def, "metadata", EmptyDict)
        name == GetN(md, "name")
        mdisk == merged_disk(container_def, runtime_def)
    IN  [version  |-> PyStr("1"),
         type     |-> PyStr("Application"),
         metadata |-> [name          |-> name,
                       clusterGroups |-> Or(GetN(md, "clusterGroups"), EmptyList),
                       labels        |-> Or(GetN(md, "labels"), EmptyList)],
         spec |->
           [assets |-> <<[name   |-> disk_name(mdisk),
                          type   |-> PyStr("virtual_disk"),
                          format |-> disk_format(mdisk),
                          url    |-> disk_image(mdisk)]>>,
            resources |-> <<
              [type |-> PyStr("virdomain"),
               name |-> ResourceName(name),
               spec |->
                 [cpu    |-> vcpus(container_def, runtime_def),
                  memory |-> memory(container_def, runtime_def),
                  storage_devices |-> <<[name     |-> PyStr("bootdisk"),
                                         type     |-> PyStr("virtio_disk"),
                                         source   |-> disk_name(mdisk),
                                         boot     |-> PyInt(1),
                                         capacity |-> disk_capacity(mdisk)]>>,
                  network_devices |-> network_devices(runtime_def),
                  tags  |-> Or(GetN(md, "labels"), EmptyList),
                  state |-> vm_state(runtime_def),
                  cloud_init_data |->
                    [user_data |-> USER_DATA_PLACEHOLDER,
                     meta_data |-> MetaData(name)]]]>>]]
        @@ (RenderedKey :>
              container_quadlet_user_data(containers(container_def),
                                          content(container_def),
                                          merged_cloud_init(container_def, runtime_def),
                                          policies(runtime_def)))

----------------------------------------------------------------------------
(* main: serialisation of the manifest (compile_manifests.py:305-322).     *)
(* A document is the sequence of its lines.                                *)

\* text.splitlines() of a text given by its pieces: every line break ends a
\* line, which is the piece before it (or empty), and what follows the last
\* line break is a last line
TextLines(t) ==
    LET breaks == SelectSeq([j \in 1..Len(t) |-> j], LAMBDA j : t[j] = NL)
    IN  [k \in 1..Len(breaks) |->
           IF breaks[k] > 1 /\ t[breaks[k] - 1] # NL THEN t[breaks[k] - 1] ELSE ""]
        \o (IF Len(t) > 0 /\ t[Len(t)] # NL THEN <<t[Len(t)]>> ELSE <<>>)

\* strings the dumper cannot write plain: they would read back as another type
PlainUnsafe == {"", "1", "0", "null", "true", "false", "~"}

\* a scalar as the dumper writes it in block context
YamlScalar(v) ==
    CASE v[1] = "none" -> "null"
      [] v[1] = "int"  -> ToString(v[2])
      [] v[1] = "bool" -> IF v[2] THEN "true" ELSE "false"
      [] v[1] = "str"  -> IF v[2] \in PlainUnsafe THEN "'" \o v[2] \o "'" ELSE v[2]
      [] v[1] = "list" -> "[]"
      [] v[1] = "dict" -> "{}"

Indent(pre, lines) == [j \in 1..Len(lines) |-> IF lines[j] = "" THEN "" ELSE pre \o lines[j]]

\* key: value, for a scalar, a sequence of scalars or a multi-line string
DumpEntry(pre, key, v) ==
    IF v[1] = "list" /\ Len(v[2]) > 0
    THEN <<pre \o key \o ":">> \o [j \in 1..Len(v[2]) |-> pre \o "- " \o YamlScalar(v[2][j])]
    ELSE IF v[1] = "text"
    THEN <<pre \o key \o ": |">> \o Indent(pre \o "  ", v[2])
    ELSE <<pre \o key \o ": " \o YamlScalar(v)>>

\* the first entry of a sequence item follows "- ", the others are aligned under it
DumpItem(pre, entries) ==
    [j \in 1..Len(entries) |->
        (IF j = 1 THEN pre \o "- " ELSE pre \o "  ") \o entries[j][1] \o ": "
            \o YamlScalar(entries[j][2])]

\* The emitter writes a str in the literal style asked for at line 19 only
\* when no line of it ends with a space, and double-quoted otherwise; of the
\* lines the generator writes from the documents here, those that end with a
\* space hold nothing but the indentation of a heredoc body.
EndsWithSpace(l) == l = "    "
AllowBlock(t) == LET ls == TextLines(t) IN \A j \in 1..Len(ls) : ~EndsWithSpace(ls[j])

RECURSIVE Escaped(_)
\* the lines of a text inside double quotes, every line break written \n
Escaped(ls) ==
    IF Len(ls) = 0 THEN ""
    ELSE IF Len(ls) = 1 THEN ls[1] \o "\\n"
    ELSE LET h == Len(ls) \div 2
         IN  Escaped(SubSeq(ls, 1, h)) \o Escaped(SubSeq(ls, h + 1, Len(ls)))

\* the helper entry as the emitter writes it: a literal block, or one
\* double-quoted scalar (its folding over several lines is left out)
DumpRendered(t) ==
    IF AllowBlock(t)
    THEN <<RenderedKey \o ": |">> \o Indent("  ", TextLines(t))
    ELSE <<RenderedKey \o ": \"" \o Escaped(TextLines(t)) \o "\"">>

\* yaml.dump(app, Dumper=LiteralSafeDumper, sort_keys=False), line 307
Dump(a) ==
    LET asset == a.spec.assets[1]
        res   == a.spec.resources[1]
        sd    == res.spec.storage_devices[1]
        nd    == res.spec.network_devices
    IN  DumpEntry("", "version", a.version)
        \o DumpEntry("", "type", a.type)
        \o <<"metadata:">>
        \o DumpEntry("  ", "name", a.metadata.name)
        \o DumpEntry("  ", "clusterGroups", a.metadata.clusterGroups)
        \o DumpEntry("  ", "labels", a.metadata.labels)
        \o <<"spec:", "  assets:">>
        \o DumpItem("  ", <<<<"name", asset.name>>, <<"type", asset.type>>,
                            <<"format", asset.format>>, <<"url", asset.url>>>>)
        \o <<"  resources:">>
        \o DumpItem("  ", <<<<"type", res.type>>, <<"name", res.name>>>>)
        \o <<"    spec:">>
        \o DumpEntry("      ", "cpu", res.spec.cpu)
        \o DumpEntry("      ", "memory", res.spec.memory)
        \o <<"      storage_devices:">>
        \o DumpItem("      ", <<<<"name", sd.name>>, <<"type", sd.type>>,
                                <<"source", sd.source>>, <<"boot", sd.boot>>,
                                <<"capacity", sd.capacity>>>>)
        \o <<"      network_devices:">>
        \o Flatten([j \in 1..Len(nd) |->
                      DumpItem("      ", <<<<"name", nd[j].name>>, <<"type", nd[j].type>>>>)])
        \o DumpEntry("      ", "tags", res.spec.tags)
        \o DumpEntry("      ", "state", res.spec.state)
        \o <<"      cloud_init_data:">>
        \o DumpEntry("        ", "user_data", res.spec.cloud_init_data.user_data)
        \o DumpEntry("        ", "meta_data", res.spec.cloud_init_data.meta_data)
        \o (IF RenderedKey \in DOMAIN a THEN DumpRendered(a[RenderedKey]) ELSE <<>>)

\* dumped.replace("\n" + line + "\n", "\n"): the line goes, unless it is the first
RemoveLine(doc, line) ==
    IF Len(doc) <= 1 THEN doc
    ELSE <<doc[1]>> \o SelectSeq(Tail(doc), LAMBDA l : l # line)

\* a slip in lines 319-320: empty lines of the text are skipped
ReplaceBlock_drops_blank_lines(indent, user_data_text) ==
    LET ls == SelectSeq(TextLines(user_data_text), LAMBDA l : l # "")
    IN  <<indent \o "user_data: |">>
        \o [j \in 1..Len(ls) |-> indent \o "  " \o ls[j]]
        \o <<"">>

\* replace_block, lines 316-321: the block ends in a line break of its own, and
\* the line break of the replaced line stays, which leaves an empty line
ReplaceBlock(indent, user_data_text) ==
    <<indent \o "user_data: |">>
    \o [j \in 1..Len(TextLines(user_data_text)) |->
          indent \o "  " \o TextLines(user_data_text)[j]]
    \o <<"">>

PlaceholderLine == "        user_data: " \o USER_DATA_PLACEHOLDER[2]

\* re.sub(r"^(\s*)user_data: .*__USER_DATA_PLACEHOLDER__.*$", replace_block, ...)
SubPlaceholder(doc, user_data_text) ==
    Flatten([j \in 1..Len(doc) |->
               IF doc[j] = PlaceholderLine
               THEN ReplaceBlock("        ", user_data_text)
               ELSE <<doc[j]>>])

\* the text written at line 325
Dumped(a) ==
    IF RenderedKey \in DOMAIN a
    THEN SubPlaceholder(
           RemoveLine(RemoveLine(Dump(a), RenderedKey \o ": |"), RenderedKey \o ": "),
           a[RenderedKey])
    ELSE Dump(a)

----------------------------------------------------------------------------
(* The files main() finds: bounded families of input documents *)

MaxFiles == 2        \* container-definition files in one run
MaxContainers == 2   \* containers of one definition
MaxContent == 2      \* content items of one definition

Absent == <<"absent">>     \* no file at this path
BadYaml == <<"badyaml">>   \* a file yaml.safe_load cannot parse
OldDoc == <<"# written by an earlier run">>

\* A container-definition file is manifests/containers/<base>.container.yaml;
\* its base is given by its pieces, a piece being ".container" or free of it.
Stems == {"demo", "api", "db"}
Bases == {<<st>> : st \in Stems} \cup {<<"db", ".container">>}

\* Path(cfile).stem.replace('.container', ''), line 296: Path.stem drops the
\* last suffix (.yaml), and replace drops every occurrence of .container
StemReplace(pieces) ==
    LET kept == SelectSeq(pieces \o <<".container">>, LAMBDA x : x # ".container")
    IN  IF Len(kept) = 0 THEN "" ELSE JoinStr(kept, "")

\* f'{name}.yaml', line 304
OutName(stem) == stem \o ".yaml"
OutNames == {OutName(JoinStr(b, "")) : b \in Bases} \cup {"notes.txt"}

Range(f) == {f[x] : x \in DOMAIN f}

\* the mappings that give some of the keys of V, each a value of its set V[k]
Dicts(V) ==
    UNION {{PyDict(f) : f \in {g \in [D -> UNION Range(V)] : \A k \in D : g[k] \in V[k]}}
             : D \in SUBSET DOMAIN V}

\* the sequences of at most n elements of S
SeqsUpTo(S, n) == UNION {[1..m -> S] : m \in 0..n}

Web == PyDict([name |-> PyStr("web"), image |-> PyStr("nginx:alpine"),
               ports |-> PyList(<<PyInt(80)>>)])
Db == PyDict([name |-> PyStr("db"), image |-> PyStr("postgres:16"),
              ports |-> PyList(<<PyInt(5432), PyStr("127.0.0.1:8080:80")>>),
              mounts |-> PyList(<<
                 PyDict([hostPath |-> PyStr("/srv/db"), mountPath |-> PyStr("/var/lib/db"),
                         selinuxRelabel |-> PyBool(TRUE)]),
                 PyDict([mountPath |-> PyStr("/data")])>>),
              env |-> PyList(<<PyDict([name |-> PyStr("PGUSER"), value |-> PyStr("app")])>>)])
Anon == PyDict([image |-> PyStr("busybox"),
                mounts |-> PyList(<<
                   PyDict([hostPath |-> PyStr("/tmp"), mountPath |-> PyStr("/scratch"),
                           selinuxRelabel |-> PyBool(FALSE)])>>)])
ContainerKinds == {Web, Db, Anon}

Index == PyDict([path |-> PyStr("/var/edge/www/index.html"), mode |-> PyStr("0755"),
                 data |-> PyText(<<"<h1>hi</h1>", "", "bye">>)])
Motd == PyDict([path |-> PyStr("/etc/motd"), data |-> PyStr("hello")])
NoData == PyDict([path |-> PyStr("/etc/empty"), data |-> PyNone])
ContentKinds == {Index, Motd, NoData}

Meta(n) == PyDict([name |-> PyStr(n)])
ContainerDef(meta, spec) == PyDict([metadata |-> meta, spec |-> spec])
BaseSpec == PyDict([containers |-> PyList(<<Web>>)])
BaseDef(n) == ContainerDef(Meta(n), BaseSpec)
RuntimeDoc(spec) == PyDict([spec |-> spec])

\* one container-definition file "demo", with the generic runtime file g
One(cdef, g) ==
    [files |-> <<[base |-> <<"demo">>, content |-> cdef]>>, generic |-> g,
     perapp |-> [st \in Stems |-> Absent], unwritable |-> {}, prior |-> Absent]

\* a batch of files: good ones, an unparseable one, ones without a name, a
\* malformed one (spec: null), with or without output left by an earlier run
FileContents(st) ==
    {BaseDef(st), BadYaml,
     ContainerDef(EmptyDict, BaseSpec),
     ContainerDef(Meta(""), BaseSpec),
     ContainerDef(Meta(st), PyNone)}
BatchInputs ==
    {[files |-> fs, generic |-> Absent, perapp |-> [st \in Stems |-> Absent],
      unwritable |-> u, prior |-> pr] :
        fs \in {f \in SeqsUpTo([base : {<<st>> : st \in Stems},
                                content : UNION {FileContents(st) : st \in Stems}],
                               MaxFiles) :
                  /\ \A j \in 1..Len(f) : f[j].content \in FileContents(f[j].base[1])
                  /\ \A j, k \in 1..Len(f) : j # k => f[j].base # f[k].base},
        u \in {{}} \cup {{OutName(st)} : st \in Stems},
        pr \in {Absent, OldDoc}}

\* disk settings on both sides
DiskKeys == {"name", "capacity", "format", "imageUrl", "url"}
DiskCfgs(side) ==
    Dicts([k \in DiskKeys |->
             {PyStr(side \o "-" \o k)} \cup (IF k = "imageUrl" THEN {PyStr("")} ELSE {})])
DiskInputs ==
    {One(ContainerDef(Meta("demo"),
                      SetItem(BaseSpec, "runtime", PyDict([disk |-> cd]))),
         RuntimeDoc(PyDict([runtime |-> PyDict([disk |-> rd])]))) :
        cd \in DiskCfgs("c"), rd \in DiskCfgs("r")}

\* vcpus and memory on both sides, listed with an empty value or not at all
SizingInputs ==
    {One(ContainerDef(Meta("demo"), SetItem(BaseSpec, "runtime", cr)),
         RuntimeDoc(PyDict([runtime |-> rr]))) :
        cr \in Dicts([vcpus  |-> {PyNone, PyInt(0), PyInt(4)},
                      memory |-> {PyStr(""), PyStr("4Gi")}]),
        rr \in Dicts([vcpus  |-> {PyNone, PyInt(0), PyInt(8)},
                      memory |-> {PyNone, PyStr(""), PyStr("8Gi")}])}

\* cloud-init settings: the container's own, its convenience fields, the runtime's
User(n) == PyDict([name |-> PyStr(n)])
Alice == PyDict([name |-> PyStr("alice"), groups |-> PyList(<<PyStr("wheel"), PyStr("podman")>>),
                 sudo |-> PyStr("ALL=(ALL) NOPASSWD:ALL"), shell |-> PyStr("/bin/bash"),
                 sshAuthorizedKeys |-> PyList(<<PyStr("ssh-ed25519 AAAA")>>)])
Chpasswd(who) == PyDict([list |-> PyText(<<who \o ":secret">>), expire |-> PyBool(FALSE)])
CloudInputs ==
    {One(ContainerDef(Meta("demo"), SetItem(cs, "containers", PyList(<<Web>>))),
         RuntimeDoc(rs)) :
        cs \in Dicts([cloudInit |-> Dicts([ssh      |-> {PyDict([passwordAuth |-> PyBool(TRUE)])},
                                           users    |-> {PyList(<<Alice>>)},
                                           chpasswd |-> {Chpasswd("alice")}]),
                      users     |-> {EmptyList, PyList(<<User("bob")>>)},
                      chpasswd  |-> {Chpasswd("bob")}]),
        rs \in Dicts([cloudInit |-> Dicts([ssh      |-> {EmptyDict,
                                                         PyDict([passwordAuth |-> PyBool(FALSE),
                                                                 disableRoot  |-> PyBool(FALSE)])},
                                           users    |-> {EmptyList, PyList(<<User("carol")>>)},
                                           chpasswd |-> {Chpasswd("carol")}])])}

\* what the script generator renders: containers, content items, policies
Flags == {"enablePodmanSocket", "enableAutoUpdateTimer", "setupQemuGuestAgent",
          "rebootAfterQga", "autoUpdateLabel"}
AllFalse == PyDict([k \in Flags |-> PyBool(FALSE)])
PolicyDicts ==
    {PyDict(f) : f \in [Flags -> {PyBool(TRUE), PyBool(FALSE)}]}
    \cup {PyDict([k \in {fl} |-> PyBool(FALSE)]) : fl \in Flags}
    \cup {EmptyDict}
GenDef(cl, il) ==
    ContainerDef(Meta("demo"), PyDict([containers |-> PyList(cl), content |-> PyList(il)]))
GeneratorInputs ==
    {One(GenDef(cl, il), RuntimeDoc(PyDict([policies |-> pol]))) :
        cl \in SeqsUpTo(ContainerKinds, MaxContainers),
        il \in SeqsUpTo(ContentKinds, MaxContent),
        pol \in {EmptyDict, AllFalse}}
    \cup
    {One(GenDef(<<Web, Db>>, <<Index>>),
         RuntimeDoc(PyDict([policies |-> pol,
                            cloudInit |-> PyDict([ssh      |-> PyDict([disableRoot |-> PyBool(TRUE)]),
                                                  users    |-> PyList(<<Alice, User("carol")>>),
                                                  chpasswd |-> Chpasswd("carol")])]))) :
        pol \in PolicyDicts}

\* which runtime file is there, and what it holds
FullRuntime ==
    RuntimeDoc(PyDict([vmState |-> PyStr("stopped"),
                       network |-> PyList(<<PyDict([name |-> PyStr("eth1"),
                                                    type |-> PyStr("e1000")]),
                                            EmptyDict>>)]))
LabelledDef ==
    ContainerDef(PyDict([name |-> PyStr("demo"),
                         labels |-> PyList(<<PyStr("edge")>>),
                         clusterGroups |-> PyList(<<PyStr("lab"), PyStr("prod")>>)]),
                 BaseSpec)
RuntimeInputs ==
    {[One(cdef, g) EXCEPT !.perapp = [st \in Stems |-> IF st = "demo" THEN pa ELSE Absent]] :
        cdef \in {LabelledDef, PyNone},
        g \in {Absent, PyNone, BadYaml, FullRuntime, RuntimeDoc(PyNone),
               RuntimeDoc(PyDict([network |-> EmptyList]))},
        pa \in {Absent, RuntimeDoc(PyDict([vmState |-> PyStr("paused")]))}}

\* files whose name holds .container once more, before the suffix
NameInputs ==
    {[files |-> fs, generic |-> Absent, perapp |-> [st \in Stems |-> Absent],
      unwritable |-> {}, prior |-> pr] :
        fs \in {f \in SeqsUpTo([base : {<<"db">>, <<"db", ".container">>},
                                content : {BaseDef("db"), LabelledDef}], MaxFiles) :
                  /\ Len(f) > 0
                  /\ \A j, k \in 1..Len(f) : j # k => f[j].base # f[k].base},
        pr \in {Absent, OldDoc}}

Inputs ==
    BatchInputs \cup DiskInputs \cup SizingInputs \cup CloudInputs
        \cup GeneratorInputs \cup RuntimeInputs \cup NameInputs

----------------------------------------------------------------------------
(* main (compile_manifests.py:285-330) *)

NoApp == <<"noapp">>

Init ==
    \E inp \in Inputs :
        /\ container_files = inp.files
        /\ generic_runtime = inp.generic
        /\ per_app_runtime = inp.perapp
        /\ unwritable = inp.unwritable
        /\ out_dir = [n \in OutNames |-> inp.prior]
        /\ run = "first"
        /\ first_written = <<>>
        /\ i = 1
        /\ compiled = 0
        /\ main_container_def = NoApp
        /\ main_runtime_def = NoApp
        /\ app = NoApp
        /\ cloud_init = NoApp
        /\ stdout = <<>>
        /\ pc = "start"
        /\ run_at_rest /\ pm_at_rest /\ lookup_at_rest /\ cleanup_at_rest /\ testdeploy_at_rest
        /\ monitor_at_rest /\ lifecycle_at_rest

\* lines 286-292: nothing to compile ends the run at once
Start ==
    /\ pc = "start"
    /\ IF Len(container_files) = 0
       THEN /\ stdout' = Append(stdout, <<"none found">>)
            /\ pc' = "done"
       ELSE /\ stdout' = stdout
            /\ pc' = "loop"
    /\ UNCHANGED <<container_files, generic_runtime, per_app_runtime, unwritable,
                   out_dir, run, first_written, i, compiled, main_container_def,
                   main_runtime_def, app, cloud_init>>
    /\ UNCHANGED not_compile

\* lines 296-302: the j-th file and the runtime file chosen for it
NameAt(j) == StemReplace(container_files[j].base)
RuntimeFileAt(j) ==
    IF generic_runtime # Absent THEN generic_runtime ELSE per_app_runtime[NameAt(j)]
ContainerDefAt(j) == container_files[j].content
RuntimeDefAt(j) == IF RuntimeFileAt(j) = Absent THEN EmptyDict ELSE RuntimeFileAt(j)

\* load_yaml raises (lines 301-302) or to_application raises (line 303)
CompileRaisesAt(j) ==
    IF ContainerDefAt(j) = BadYaml \/ RuntimeFileAt(j) = BadYaml
    THEN TRUE
    ELSE ToApplicationRaises(ContainerDefAt(j), RuntimeDefAt(j)) = TRUE

CurName == NameAt(i)
CurContainerDef == ContainerDefAt(i)
CurRuntimeDef == RuntimeDefAt(i)
CompileRaises == CompileRaisesAt(i)

\* a slip in line 324: open(out_path, 'a')
WriteFile_append(old, dumped) == IF old = Absent THEN dumped ELSE old \o dumped

\* open(out_path, 'w') and f.write(dumped), lines 324-325: the file is truncated
WriteFile(old, dumped) == dumped

\* lines 295-327, an iteration that reaches its end: the document is written
CompileFile ==
    /\ pc = "loop"
    /\ i <= Len(container_files)
    /\ ~CompileRaises
    /\ OutName(CurName) \notin unwritable
    /\ app' = to_application(CurContainerDef, CurRuntimeDef)
    /\ cloud_init' = merged_cloud_init(CurContainerDef, CurRuntimeDef)
    /\ main_container_def' = ContainerDefAfterCall(CurContainerDef)
    /\ main_runtime_def' = CurRuntimeDef
    /\ out_dir' = [out_dir EXCEPT ![OutName(CurName)] = WriteFile(@, Dumped(app'))]
    /\ first_written' = IF run = "first"
                        THEN Append(first_written, out_dir'[OutName(CurName)])
                        ELSE first_written
    /\ stdout' = Append(stdout, <<"compiled", CurName>>)
    /\ compiled' = compiled + 1
    /\ i' = i + 1
    /\ UNCHANGED <<container_files, generic_runtime, per_app_runtime, unwritable,
                   run, pc>>
    /\ UNCHANGED not_compile

\* lines 301-303: an exception leaves the loop and main; nothing catches it
CompileFails ==
    /\ pc = "loop"
    /\ i <= Len(container_files)
    /\ CompileRaises = TRUE
    /\ pc' = "raised"
    /\ UNCHANGED <<container_files, generic_runtime, per_app_runtime, unwritable,
                   out_dir, run, first_written, i, compiled, main_container_def,
                   main_runtime_def, app, cloud_init, stdout>>
    /\ UNCHANGED not_compile

\* line 324: open(out_path, 'w') raises; nothing catches it
WriteFails ==
    /\ pc = "loop"
    /\ i <= Len(container_files)
    /\ ~CompileRaises
    /\ OutName(CurName) \in unwritable
    /\ app' = to_application(CurContainerDef, CurRuntimeDef)
    /\ cloud_init' = merged_cloud_init(CurContainerDef, CurRuntimeDef)
    /\ main_container_def' = ContainerDefAfterCall(CurContainerDef)
    /\ main_runtime_def' = CurRuntimeDef
    /\ pc' = "raised"
    /\ UNCHANGED <<container_files, generic_runtime, per_app_runtime, unwritable,
                   out_dir, run, first_written, i, compiled, stdout>>
    /\ UNCHANGED not_compile

\* lines 329-330: the summary, and main returns 0
Finish ==
    /\ pc = "loop"
    /\ i > Len(container_files)
    /\ stdout' = Append(stdout, <<"summary", ToString(compiled)>>)
    /\ pc' = "done"
    /\ UNCHANGED <<container_files, generic_runtime, per_app_runtime, unwritable,
                   out_dir, run, first_written, i, compiled, main_container_def,
                   main_runtime_def, app, cloud_init>>
    /\ UNCHANGED not_compile

\* the script is run once more on the same files (line 334): every local of
\* main starts anew, the input files and the output directory are as they are
Rerun ==
    /\ pc = "done"
    /\ run = "first"
    /\ run' = "second"
    /\ i' = 1
    /\ compiled' = 0
    /\ main_container_def' = NoApp
    /\ main_runtime_def' = NoApp
    /\ app' = NoApp
    /\ cloud_init' = NoApp
    /\ stdout' = <<>>
    /\ pc' = "start"
    /\ UNCHANGED <<container_files, generic_runtime, per_app_runtime, unwritable,
                   out_dir, first_written>>
    /\ UNCHANGED not_compile

Next == Start \/ CompileFile \/ CompileFails \/ WriteFails \/ Finish \/ Rerun

Spec == Init /\ [][Next]_vars

----------------------------------------------------------------------------
(* What the claims speak of *)

\* the latest iteration of the loop ran to its end: file i-1 was compiled and
\* written, and app and cloud_init are those of that file
Acted == i > 1 /\ pc # "raised"
LastDef == ContainerDefAt(i - 1)
LastRuntime == RuntimeDefAt(i - 1)
LastText == app[RenderedKey]
LastLines == TextLines(LastText)
LastAsset == app.spec.assets[1]
LastDomain == app.spec.resources[1].spec

PriorContents == {Absent, OldDoc}

\* metadata.name is absent or empty
NameMissing(cdef) ==
    /\ IsDict(cdef)
    /\ IsDict(Get(cdef, "metadata", EmptyDict))
    /\ ~Truthy(GetN(Get(cdef, "metadata", EmptyDict), "name"))

\* some mount of some container of a well-formed definition has no hostPath
MountLacksHostPath(cdef) ==
    \E c \in Range(containers(cdef)[2]) :
        \E m \in Range(Get(c, "mounts", EmptyList)[2]) : ~Has(m, "hostPath")

\* C1: per-file isolation in the compile batch: a file whose compilation fails
\* is skipped, the run is not aborted by it, and at the end of the run (after
\* the summary) every other discovered file has been compiled and written.
C1_PerFileIsolation ==
    /\ pc # "raised"
    /\ pc = "done" /\ Len(container_files) > 0 =>
         /\ stdout[Len(stdout)][1] = "summary"
         /\ \A j \in 1..Len(container_files) :
              (~CompileRaisesAt(j) /\ OutName(NameAt(j)) \notin unwritable) =>
                 out_dir[OutName(NameAt(j))]
                    = Dumped(to_application(ContainerDefAt(j), RuntimeDefAt(j)))

\* C2: a Container Definition whose metadata.name is absent or empty is
\* rejected before anything is written: the output document of that
\* definition is never created or modified by the run.
C2_NamelessNotWritten ==
    \A j \in 1..Len(container_files) :
        NameMissing(ContainerDefAt(j)) =>
            out_dir[OutName(NameAt(j))] \in PriorContents

\* C3: a container with a mount that lacks hostPath is rejected by the script
\* generator: no cloud-init text is produced from such a definition, so no
\* compiled file has such a mount and no Volume= line has a missing host path.
C3_MountWithoutHostPathRejected ==
    /\ \A j \in 1..(i - 1) : ~MountLacksHostPath(ContainerDefAt(j))
    /\ app # NoApp =>
         \A m \in UNION {Range(Get(c, "mounts", EmptyList)[2]) : c \in ContainerKinds} :
            \A sel \in {"", ":Z"} :
               ("    Volume=None:" \o Str(GetN(m, "mountPath")) \o sel)
                  \notin Range(LastText)

----------------------------------------------------------------------------
(* Cloud-init merge (claims C4, C5) *)

CloudKeys == {"ssh", "users", "chpasswd"}
ConvenienceKeys == {"users", "chpasswd"}

\* the three sources of the latest compiled pair, read from the documents
OwnCloudInit == Or(GetN(Get(LastDef, "spec", EmptyDict), "cloudInit"), EmptyDict)
Convenience(k) == GetN(Get(LastDef, "spec", EmptyDict), k)
RuntimeCloudInit ==
    IF Truthy(LastRuntime)
    THEN Or(GetN(Get(LastRuntime, "spec", EmptyDict), "cloudInit"), EmptyDict)
    ELSE EmptyDict
HasConvenience(k) == k \in ConvenienceKeys /\ Truthy(Convenience(k))

\* C4 as stated: convenience fields first, then the container's own cloudInit,
\* then the runtime's; with spec.users and spec.cloudInit.users both given and
\* no runtime users, the merged users are spec.cloudInit.users (and likewise
\* for chpasswd).
C4_OwnCloudInitOverConvenience ==
    Acted =>
      \A k \in ConvenienceKeys :
        (HasConvenience(k) /\ Has(OwnCloudInit, k) /\ ~Has(RuntimeCloudInit, k)) =>
            GetN(cloud_init, k) = OwnCloudInit[2][k]

\* C4, amended: the merge order is the container's own cloudInit first, then
\* the non-empty convenience fields spec.users / spec.chpasswd over it, then
\* the runtime's cloudInit, last write winning per key; so with spec.users and
\* spec.cloudInit.users both given and no runtime users the merged users are
\* spec.users (and likewise for chpasswd).
C4_MergeOrder ==
    Acted =>
      /\ DOMAIN cloud_init[2] \subseteq CloudKeys
      /\ \A k \in CloudKeys :
           IF Has(RuntimeCloudInit, k) THEN GetN(cloud_init, k) = RuntimeCloudInit[2][k]
           ELSE IF HasConvenience(k) THEN GetN(cloud_init, k) = Convenience(k)
           ELSE IF Has(OwnCloudInit, k) THEN GetN(cloud_init, k) = OwnCloudInit[2][k]
           ELSE ~Has(cloud_init, k)

\* a definition with spec.users and spec.cloudInit.users, different, compiled
\* with a runtime that sets no users
C4_Witness ==
    /\ Acted
    /\ HasConvenience("users") /\ Has(OwnCloudInit, "users")
    /\ ~Has(RuntimeCloudInit, "users")
    /\ Convenience("users") # OwnCloudInit[2]["users"]
    /\ GetN(cloud_init, "users") = Convenience("users")
    /\ "  - name: bob" \in Range(LastText)

\* C5: runtime cloud-init precedence: a top-level cloud-init key given by the
\* runtime's cloudInit and by the container (own cloudInit or a non-empty
\* convenience field) takes the runtime's value whole; a key given by one side
\* only keeps that side's value; a key given by neither is not in the merge.
C5_RuntimePrecedence ==
    Acted =>
      \A k \in CloudKeys :
        LET inRuntime   == Has(RuntimeCloudInit, k)
            inContainer == Has(OwnCloudInit, k) \/ HasConvenience(k)
        IN  /\ inRuntime => (Has(cloud_init, k) /\ cloud_init[2][k] = RuntimeCloudInit[2][k])
            /\ (inContainer /\ ~inRuntime) =>
                  /\ Has(cloud_init, k)
                  /\ cloud_init[2][k] \in
                        {v \in {GetN(OwnCloudInit, k), Convenience(k)} : Truthy(v)}
                          \cup (IF Has(OwnCloudInit, k) THEN {OwnCloudInit[2][k]} ELSE {})
            /\ (~inContainer /\ ~inRuntime) => ~Has(cloud_init, k)

\* users given by both sides, with different values, and the runtime's rendered
C5_Witness ==
    /\ Acted
    /\ Has(RuntimeCloudInit, "users") /\ Has(OwnCloudInit, "users")
    /\ HasConvenience("chpasswd") /\ ~Has(RuntimeCloudInit, "chpasswd")
    /\ RuntimeCloudInit[2]["users"] = PyList(<<User("carol")>>)
    /\ cloud_init[2]["users"] = PyList(<<User("carol")>>)
    /\ "  - name: carol" \in Range(LastText)
    /\ "  - name: alice" \notin Range(LastText)

----------------------------------------------------------------------------
(* Disk settings (claims C6, C7) and sizing (claim C8) *)

LastContainerDisk == disk_cfg_overrides(LastDef)
LastRuntimeDisk == disk_cfg_defaults(LastRuntime)

\* key by key: the container's value, else the runtime's, else the default
DiskKey(k, default) ==
    IF Has(LastContainerDisk, k) THEN LastContainerDisk[2][k]
    ELSE IF Has(LastRuntimeDisk, k) THEN LastRuntimeDisk[2][k]
    ELSE default
InMergedDisk(k) == Has(LastContainerDisk, k) \/ Has(LastRuntimeDisk, k)

PlainFieldsResolved ==
    /\ LastAsset.name = DiskKey("name", PyStr("rootdisk"))
    /\ LastDomain.storage_devices[1].source = DiskKey("name", PyStr("rootdisk"))
    /\ LastDomain.storage_devices[1].capacity = DiskKey("capacity", PyStr("40Gi"))
    /\ LastAsset.format = DiskKey("format", PyStr("raw"))

\* the image a document gives: its imageUrl, else its url
ImageOf(disk) == Or(GetN(disk, "imageUrl"), GetN(disk, "url"))
GivesImage(disk) == Has(disk, "imageUrl") \/ Has(disk, "url")

\* C6 as stated: each of name, capacity, image, format is the container's value
\* when the container supplies that field, otherwise the runtime's, otherwise
\* the built-in default.
C6_FieldByFieldContainerWins ==
    Acted =>
      /\ PlainFieldsResolved
      /\ LastAsset.url =
           IF GivesImage(LastContainerDisk) THEN ImageOf(LastContainerDisk)
           ELSE IF GivesImage(LastRuntimeDisk) THEN ImageOf(LastRuntimeDisk)
           ELSE PyNone

\* C6, amended: the disk keys name, capacity, format, imageUrl and url are each
\* merged with the container's value winning over the runtime's; name, capacity
\* and format then fall back to rootdisk, 40Gi and raw, and the image is the
\* merged imageUrl when that is non-empty, else the merged url (so a runtime
\* imageUrl wins over a container url).
C6_DiskMerge ==
    Acted =>
      /\ PlainFieldsResolved
      /\ LastAsset.url = Or(DiskKey("imageUrl", PyNone), DiskKey("url", PyNone))

\* runtime capacity and container capacity both given: the container's is used
\* and the runtime's name and format are retained
C6_Witness ==
    /\ Acted
    /\ Has(LastContainerDisk, "capacity") /\ Has(LastRuntimeDisk, "capacity")
    /\ DOMAIN LastContainerDisk[2] = {"capacity"}
    /\ {"name", "format"} \subseteq DOMAIN LastRuntimeDisk[2]
    /\ LastDomain.storage_devices[1].capacity = PyStr("c-capacity")
    /\ LastAsset.name = PyStr("r-name")
    /\ LastAsset.format = PyStr("r-format")

\* C7 as stated: when the merged disk settings contain both imageUrl and url,
\* the asset's url is the imageUrl value, whichever document gave each.
C7_ImageUrlWhenBothPresent ==
    (Acted /\ InMergedDisk("imageUrl") /\ InMergedDisk("url")) =>
        LastAsset.url = DiskKey("imageUrl", PyNone)

\* C7, amended: when the merged disk settings contain both imageUrl and url and
\* the imageUrl value is not empty, the asset's url is the imageUrl value,
\* whichever document gave each; with an empty imageUrl it is the url value.
C7_ImageUrlPreferred ==
    (Acted /\ InMergedDisk("imageUrl") /\ InMergedDisk("url")) =>
        LastAsset.url = IF Truthy(DiskKey("imageUrl", PyNone))
                        THEN DiskKey("imageUrl", PyNone)
                        ELSE DiskKey("url", PyNone)

\* url from the container, imageUrl from the runtime: the imageUrl is used
C7_Witness ==
    /\ Acted
    /\ Has(LastContainerDisk, "url") /\ ~Has(LastContainerDisk, "imageUrl")
    /\ Has(LastRuntimeDisk, "imageUrl") /\ ~Has(LastRuntimeDisk, "url")
    /\ LastAsset.url = PyStr("r-imageUrl")

\* C8: the resolved cpu and memory of the virdomain are never empty, null or
\* zero, whatever the container and the runtime list for vcpus and memory.
C8_SizingNeverEmpty ==
    Acted => (Truthy(LastDomain.cpu) /\ Truthy(LastDomain.memory))

----------------------------------------------------------------------------
(* The generated cloud-init text (claims C9, C10) *)

\* C9: the generated cloud-init text of every pair that compiles has
\* #cloud-config as its first line and ends with exactly one line break.
C9_HeaderAndOneTrailingNewline ==
    Acted =>
      /\ Len(LastText) >= 3
      /\ LastText[1] = "#cloud-config"
      /\ LastText[2] = NL
      /\ LastText[Len(LastText)] = NL
      /\ LastText[Len(LastText) - 1] # NL

\* the shortest text: no container, no content, every policy off, so that the
\* text ends with the daemon-reload line
C9_Witness ==
    /\ Acted
    /\ LastText[1] = "#cloud-config"
    /\ LastText[Len(LastText) - 1] = "  - systemctl daemon-reload"
    /\ LastText[Len(LastText)] = NL
    /\ "" \notin Range(LastLines)

LastContainers == Or(containers(LastDef), EmptyList)[2]
LastContent == Or(content(LastDef), EmptyList)[2]

SeqOfRestarts == [j \in 1..Len(LastContainers) |->
                    "  - systemctl restart "
                       \o Str(Get(LastContainers[j], "name", PyStr("app"))) \o ".service"]
UnitCatLines == {"    cat <<'EOF' > /etc/containers/systemd/"
                    \o Str(Get(c, "name", PyStr("app"))) \o ".container"
                   : c \in Range(LastContainers)}
ImageLines == {"    Image=" \o Str(GetN(c, "image")) : c \in Range(LastContainers)}
ContentCatLines == {"    cat <<'EOF' > " \o Str(GetN(it, "path")) : it \in Range(LastContent)}
ChmodLines == {"    chmod " \o Str(Get(it, "mode", PyStr("0644"))) \o " " \o Str(GetN(it, "path"))
                 : it \in Range(LastContent)}

\* the section a line of the text belongs to, 0 for a line that may stand in
\* several sections (a heredoc's frame and body)
Section(l) ==
    CASE l = "#cloud-config" -> 1
      [] l \in {"ssh_pwauth: true", "ssh_pwauth: false",
                "disable_root: true", "disable_root: false"} -> 2
      [] l \in {"users:", "    ssh-authorized-keys:"} -> 3
      [] l \in {"chpasswd:", "  list: |", "  expire: true", "  expire: false"} -> 4
      [] l = "write_files: []" -> 5
      [] l = "runcmd:" -> 6
      [] l \in {"  - systemctl enable podman.socket",
                "  - systemctl enable --now podman-auto-update.timer"} -> 7
      [] l \in {"  - mkdir -p /etc/containers/systemd", "  - mkdir -p /var/edge/www"} -> 8
      [] l \in ContentCatLines \cup ChmodLines -> 9
      [] l \in UnitCatLines \cup ImageLines
                 \cup {"    [Container]", "    Label=io.containers.autoupdate=registry"} -> 10
      [] l = "  - systemctl daemon-reload" -> 11
      [] l \in Range(SeqOfRestarts) -> 12
      [] l \in {"  - transactional-update --non-interactive pkg install qemu-guest-agent || true",
                "  - mkdir -p /etc/systemd/system",
                "    cat <<'EOF' > /etc/systemd/system/enable-qemu-guest-agent.service",
                "  - systemctl enable enable-qemu-guest-agent.service || true",
                "  - mkdir -p /etc/systemd/system/qemu-guest-agent.service.d",
                "    cat <<'EOF' > /etc/systemd/system/qemu-guest-agent.service.d/override.conf",
                "  - reboot"} -> 13
      [] OTHER -> 0

\* the lines of a text that are in S, and the sections of its lines
Only(lines, S) == SelectSeq(lines, LAMBDA l : l \in S)
Sectioned(lines) ==
    SelectSeq([j \in 1..Len(lines) |-> Section(lines[j])], LAMBDA x : x > 0)

\* C10: the lines of the generated text come in the required section order:
\* header, ssh, users, chpasswd, write_files, runcmd, enables, the two mkdir,
\* content heredocs, unit heredocs, exactly one daemon-reload, one restart per
\* container in container order, guest-agent steps; so no restart precedes the
\* daemon-reload and no container unit is written after it.
C10_SectionOrder ==
    Acted =>
      LET lines == LastLines
          secs  == Sectioned(lines)
      IN  /\ \A j \in 1..(Len(secs) - 1) : secs[j] <= secs[j + 1]
          /\ lines[1] = "#cloud-config"
          /\ Only(lines, {"#cloud-config", "write_files: []", "runcmd:"})
                = <<"#cloud-config", "write_files: []", "runcmd:">>
          /\ Only(lines, {"  - mkdir -p /etc/containers/systemd", "  - mkdir -p /var/edge/www"})
                = <<"  - mkdir -p /etc/containers/systemd", "  - mkdir -p /var/edge/www">>
          /\ Only(lines, {"  - systemctl daemon-reload"}) = <<"  - systemctl daemon-reload">>
          /\ Only(lines, Range(SeqOfRestarts)) = SeqOfRestarts
          /\ Len(Only(lines, UnitCatLines)) = Len(LastContainers)
          /\ Len(Only(lines, ContentCatLines)) = Len(LastContent)

\* a text with every section: ssh, users, chpasswd, both enables, a content
\* item, two containers restarted in their order, guest agent and reboot
C10_Witness ==
    /\ Acted
    /\ Len(LastContainers) = 2
    /\ LET lines == LastLines
       IN  /\ lines[Len(lines)] = "  - reboot"
           /\ {Section(l) : l \in Range(lines)} = 0..13
           /\ Only(lines, Range(SeqOfRestarts))
                 = <<"  - systemctl restart web.service", "  - systemctl restart db.service">>

----------------------------------------------------------------------------
(* Policies (claims C11, C12, C13) *)

LastPolicies == Or(policies(LastRuntime), EmptyDict)

\* a policy flag is on when it is not listed, or listed with a true value
FlagOn(k) == ~Has(LastPolicies, k) \/ Truthy(LastPolicies[2][k])
FlagOff(k) == Has(LastPolicies, k) /\ ~Truthy(LastPolicies[2][k])

\* the text the generator gives for the latest definition under the policies pol
TextUnder(pol) ==
    container_quadlet_user_data(containers(LastDef), content(LastDef), cloud_init, pol)

RebootLine == "  - reboot"
InstallLine == "  - transactional-update --non-interactive pkg install qemu-guest-agent || true"
EnableUnitCat == "    cat <<'EOF' > /etc/systemd/system/enable-qemu-guest-agent.service"
EnableUnitLine == "  - systemctl enable enable-qemu-guest-agent.service || true"
OverrideCat == "    cat <<'EOF' > /etc/systemd/system/qemu-guest-agent.service.d/override.conf"

\* the lines only the guest-agent steps write
QgaLines ==
    {InstallLine, "  - mkdir -p /etc/systemd/system", EnableUnitCat, "    [Unit]",
     "    Description=Enable qemu-guest-agent post-reboot", "    After=multi-user.target",
     "    [Service]", "    Type=oneshot",
     "    ExecStart=/usr/bin/systemctl enable --now qemu-guest-agent.service",
     "    RemainAfterExit=yes", EnableUnitLine,
     "  - mkdir -p /etc/systemd/system/qemu-guest-agent.service.d", OverrideCat,
     "    Requires=", "    After="}

\* C11: guest-agent policy gating: with setupQemuGuestAgent false the text has
\* no guest-agent line at all (no install, no enable-unit, no override drop-in,
\* no reboot), whatever rebootAfterQga is, and ends with the reload and
\* restarts; with setupQemuGuestAgent on and rebootAfterQga false every
\* guest-agent line is there and the text is the both-true text without its
\* reboot line.
C11_GuestAgentGating ==
    Acted =>
      LET lines == LastLines
      IN  /\ FlagOff("setupQemuGuestAgent") =>
                /\ Range(lines) \cap (QgaLines \cup {RebootLine}) = {}
                /\ lines[Len(lines)] \in {"  - systemctl daemon-reload"} \cup Range(SeqOfRestarts)
          /\ (FlagOn("setupQemuGuestAgent") /\ FlagOff("rebootAfterQga")) =>
                /\ QgaLines \subseteq Range(lines)
                /\ RebootLine \notin Range(lines)
                /\ LastText \o <<RebootLine, NL>>
                      = TextUnder(Update(LastPolicies,
                                         PyDict([setupQemuGuestAgent |-> PyBool(TRUE),
                                                 rebootAfterQga |-> PyBool(TRUE)])))

\* guest agent on, reboot off: the text ends with the override drop-in
C11_Witness ==
    /\ Acted
    /\ FlagOn("setupQemuGuestAgent") /\ FlagOff("rebootAfterQga")
    /\ LET lines == LastLines
       IN  /\ lines[Len(lines)] = "    EOF"
           /\ lines[Len(lines) - 1] = "    After="
           /\ InstallLine \in Range(lines)

\* C12: reboot is issued at most once and only as the last step: the line
\* `  - reboot` is in the text iff the guest-agent policy and the
\* reboot-after-guest-agent policy are both on, and then it is the last line
\* of the text, after the enable-unit and the override drop-in have been
\* written and the unit enabled.
C12_RebootOnlyLast ==
    Acted =>
      LET lines   == LastLines
          reboots == SelectSeq([j \in 1..Len(lines) |-> j], LAMBDA j : lines[j] = RebootLine)
          At(l)   == SelectSeq([j \in 1..Len(lines) |-> j], LAMBDA j : lines[j] = l)
      IN  /\ Len(reboots) <= 1
          /\ (Len(reboots) = 1) <=> (FlagOn("setupQemuGuestAgent") /\ FlagOn("rebootAfterQga"))
          /\ Len(reboots) = 1 =>
                /\ reboots[1] = Len(lines)
                /\ \A l \in {EnableUnitCat, EnableUnitLine, OverrideCat} :
                      Len(At(l)) = 1 /\ At(l)[1] < reboots[1]
                /\ lines[Len(lines) - 1] = "    EOF"

\* no policy listed at all: the guest agent is set up and the reboot ends the text
C12_Witness ==
    /\ Acted
    /\ LastPolicies = EmptyDict
    /\ LET lines == LastLines
       IN  /\ lines[Len(lines)] = RebootLine
           /\ OverrideCat \in Range(lines)

\* C13: policy defaults and base-prep gating: a flag that is not listed behaves
\* as true, so the text is the one compiled with every flag written out (empty
\* policies give the all-true text); the podman.socket line is there iff
\* enablePodmanSocket, the auto-update timer line iff enableAutoUpdateTimer,
\* the autoupdate Label line once per unit iff autoUpdateLabel, and the two
\* mkdir commands are there for every input.
C13_PolicyDefaults ==
    Acted =>
      LET lines == LastLines
      IN  /\ LastText = TextUnder(PyDict([k \in Flags |-> PyBool(FlagOn(k))]))
          /\ ("  - systemctl enable podman.socket" \in Range(lines))
                <=> FlagOn("enablePodmanSocket")
          /\ ("  - systemctl enable --now podman-auto-update.timer" \in Range(lines))
                <=> FlagOn("enableAutoUpdateTimer")
          /\ Len(Only(lines, {"    Label=io.containers.autoupdate=registry"}))
                = IF FlagOn("autoUpdateLabel") THEN Len(LastContainers) ELSE 0
          /\ Only(lines, {"  - mkdir -p /etc/containers/systemd", "  - mkdir -p /var/edge/www"})
                = <<"  - mkdir -p /etc/containers/systemd", "  - mkdir -p /var/edge/www">>

\* no runtime configuration at all: every gated line is there
C13_Witness ==
    /\ Acted
    /\ RuntimeFileAt(i - 1) = Absent
    /\ Len(LastContainers) > 0
    /\ LET lines == LastLines
       IN  /\ "  - systemctl enable podman.socket" \in Range(lines)
           /\ "  - systemctl enable --now podman-auto-update.timer" \in Range(lines)
           /\ "    Label=io.containers.autoupdate=registry" \in Range(lines)
           /\ lines[Len(lines)] = RebootLine

----------------------------------------------------------------------------
(* Container units and content items (claims C14, C15) *)

LabelLine == "    Label=io.containers.autoupdate=registry"

\* positions of the lines of a text that are in S, in order
Positions(lines, S) == SelectSeq([j \in 1..Len(lines) |-> j], LAMBDA j : lines[j] \in S)

\* the k-th of n blocks that start one line before starts[k] and end before stop
Block(lines, starts, k, stop) ==
    SubSeq(lines, starts[k] - 1,
           IF k < Len(starts) THEN starts[k + 1] - 2 ELSE stop - 1)

\* the unit of container c as the claim gives it, the autoupdate label left
\* out; a mount that gives no hostPath has no rendering of that form, so its
\* line is taken as found
UnitAsClaimed(c, found) ==
    LET ports  == Get(c, "ports", EmptyList)[2]
        mounts == Get(c, "mounts", EmptyList)[2]
        env    == Get(c, "env", EmptyList)[2]
    IN  <<"  - |",
          "    cat <<'EOF' > /etc/containers/systemd/"
              \o Str(Get(c, "name", PyStr("app"))) \o ".container",
          "    [Container]",
          "    Image=" \o Str(GetN(c, "image"))>>
        \o [j \in 1..Len(ports) |-> "    PublishPort=" \o Str(ports[j])]
        \o [j \in 1..Len(mounts) |->
              IF Has(mounts[j], "hostPath")
              THEN "    Volume=" \o Str(mounts[j][2]["hostPath"]) \o ":"
                       \o Str(GetN(mounts[j], "mountPath"))
                       \o (IF GetN(mounts[j], "selinuxRelabel") = PyBool(TRUE) THEN ":Z" ELSE "")
              ELSE IF 4 + Len(ports) + j <= Len(found)
                   THEN found[4 + Len(ports) + j] ELSE "missing"]
        \o [j \in 1..Len(env) |->
              "    Environment=" \o Str(GetN(env[j], "name")) \o "="
                  \o Str(GetN(env[j], "value"))]
        \o <<"", "    [Install]", "    WantedBy=multi-user.target", "    EOF">>

\* C14: container unit rendering: for each container, in container order, the
\* text has one heredoc to /etc/containers/systemd/<name>.container (app for a
\* container without a name) that holds, in this order, [Container], one
\* Image= line, one PublishPort= per port, one Volume=<hostPath>:<mountPath>
\* per mount with the suffix :Z iff the mount's selinuxRelabel is true, one
\* Environment=<name>=<value> per env entry, and then the [Install] stanza;
\* beside the policy-gated autoupdate label the unit holds no other line.
C14_UnitRendering ==
    Acted =>
      LET lines  == LastLines
          starts == Positions(lines, UnitCatLines)
          stop   == Positions(lines, {"  - systemctl daemon-reload"})[1]
      IN  /\ Len(starts) = Len(LastContainers)
          /\ \A k \in 1..Len(starts) :
                LET found == SelectSeq(Block(lines, starts, k, stop),
                                       LAMBDA l : l # LabelLine)
                IN  found = UnitAsClaimed(LastContainers[k], found)

\* two units, one with a relabelled mount, ports and an env entry, the other
\* with a mount that is not relabelled
C14_Witness ==
    /\ Acted
    /\ LastContainers = <<Db, Anon>>
    /\ LET lines == LastLines
       IN  /\ "    Volume=/srv/db:/var/lib/db:Z" \in Range(lines)
           /\ "    Volume=/tmp:/scratch" \in Range(lines)
           /\ "    PublishPort=127.0.0.1:8080:80" \in Range(lines)
           /\ "    Environment=PGUSER=app" \in Range(lines)
           /\ "    cat <<'EOF' > /etc/containers/systemd/db.container" \in Range(lines)

\* the heredoc and chmod of a content item as the claim gives them
ContentAsClaimed(item) ==
    LET path == Str(GetN(item, "path"))
        mode == IF Has(item, "mode") THEN Str(item[2]["mode"]) ELSE "0644"
        data == SplitLines(Get(item, "data", PyStr("")))
    IN  <<"  - |", "    cat <<'EOF' > " \o path>>
        \o [j \in 1..Len(data) |-> "    " \o data[j]]
        \o <<"    EOF", "    chmod " \o mode \o " " \o path>>

\* C15: content injection: for each content item, in input order, the text
\* has a heredoc that writes the item's data lines to its path and, right
\* after the heredoc's terminator, `chmod <mode> <path>` with the mode as
\* given, "0644" when the item gives none; there are as many chmod lines as
\* content items, and the items stand between the two mkdir and the units.
C15_ContentInjection ==
    Acted =>
      LET lines  == LastLines
          starts == Positions(lines, ContentCatLines)
          units  == Positions(lines, UnitCatLines)
          stop   == IF Len(units) > 0 THEN units[1] - 1
                    ELSE Positions(lines, {"  - systemctl daemon-reload"})[1]
      IN  /\ Len(starts) = Len(LastContent)
          /\ Len(Only(lines, ChmodLines)) = Len(LastContent)
          /\ \A k \in 1..Len(starts) :
                Block(lines, starts, k, stop) = ContentAsClaimed(LastContent[k])
          /\ Len(starts) > 0 => lines[starts[1] - 2] = "  - mkdir -p /var/edge/www"

\* two items in input order: one with a mode and a blank data line, one
\* without a mode
C15_Witness ==
    /\ Acted
    /\ LastContent = <<Index, Motd>>
    /\ LET lines == LastLines
           at(l) == Positions(lines, {l})
       IN  /\ Len(at("    chmod 0755 /var/edge/www/index.html")) = 1
           /\ Len(at("    chmod 0644 /etc/motd")) = 1
           /\ at("    chmod 0755 /var/edge/www/index.html")[1]
                 < at("    cat <<'EOF' > /etc/motd")[1]
           /\ lines[at("    chmod 0644 /etc/motd")[1] - 1] = "    EOF"
           /\ "    " \in Range(lines)

----------------------------------------------------------------------------
(* The assembled manifest (claims C16, C17) *)

\* C16: every compiled manifest has exactly one resource, of type virdomain,
\* named as the manifest's metadata.name (the definition's name, no suffix),
\* and exactly one asset, the boot disk, whose name is the source of the
\* resource's one storage device.
C16_OneDomainOneBootDisk ==
    Acted =>
      /\ Len(app.spec.resources) = 1
      /\ app.spec.resources[1].type = PyStr("virdomain")
      /\ app.spec.resources[1].name = app.metadata.name
      /\ app.metadata.name = GetN(Get(LastDef, "metadata", EmptyDict), "name")
      /\ Len(app.spec.assets) = 1
      /\ LastAsset.type = PyStr("virtual_disk")
      /\ Len(LastDomain.storage_devices) = 1
      /\ LastDomain.storage_devices[1].source = LastAsset.name

\* a named definition with a disk name of its own
C16_Witness ==
    /\ Acted
    /\ app.metadata.name = PyStr("demo")
    /\ app.spec.resources[1].name = PyStr("demo")
    /\ Has(LastContainerDisk, "name")
    /\ LastAsset.name = PyStr("c-name")
    /\ LastDomain.storage_devices[1].source = PyStr("c-name")

\* the runtime file of the latest compiled definition is not there, or is empty
NoRuntimeGiven == RuntimeFileAt(i - 1) \in {Absent, PyNone, EmptyDict}

DefaultDevices == <<[name |-> PyStr("eth0"), type |-> PyStr("virtio")]>>

\* C17: a runtime configuration that is absent is the same as an empty one and
\* gives the documented defaults: with no runtime file, or an empty one, and
\* no runtime overrides in the container, the manifest has cpu 2, memory 2Gi,
\* state running and network_devices [{eth0, virtio}], and is the manifest
\* compiled with an empty runtime configuration; network_devices is never
\* empty, also for a runtime document whose network list is empty.
C17_AbsentRuntimeDefaults ==
    Acted =>
      /\ Len(LastDomain.network_devices) > 0
      /\ ~Truthy(network(LastRuntime)) => LastDomain.network_devices = DefaultDevices
      /\ (NoRuntimeGiven /\ container_runtime(LastDef) = EmptyDict) =>
            /\ LastDomain.cpu = PyInt(2)
            /\ LastDomain.memory = PyStr("2Gi")
            /\ LastDomain.state = PyStr("running")
            /\ LastDomain.network_devices = DefaultDevices
            /\ app = to_application(LastDef, EmptyDict)

\* an empty runtime file, and a container without overrides
C17_Witness ==
    /\ Acted
    /\ RuntimeFileAt(i - 1) = PyNone
    /\ container_runtime(LastDef) = EmptyDict
    /\ LastDomain.cpu = PyInt(2)
    /\ LastDomain.memory = PyStr("2Gi")
    /\ LastDomain.network_devices = DefaultDevices

----------------------------------------------------------------------------
(* Runs of the compiler (claims C18, C19, C20) *)

\* the output file of the latest compiled definition
LastOut == out_dir[OutName(NameAt(i - 1))]

\* C18: compilation is deterministic and idempotent: compiling the same
\* container definition and runtime configuration a second time, nothing
\* changed in between, gives the document the first compile gave, byte for
\* byte, and leaves the output file with the content the first compile wrote;
\* so does compiling the two documents again as they stand in memory.
C18_Idempotent ==
    Acted =>
      /\ LastOut = Dumped(app)
      /\ Dumped(to_application(main_container_def, main_runtime_def)) = Dumped(app)
      /\ run = "second" => LastOut = first_written[i - 1]

\* the second run is over and has written again what the first run wrote,
\* over a file that had other content before the first run
C18_Witness ==
    /\ run = "second"
    /\ pc = "done"
    /\ Acted
    /\ Len(first_written) = Len(container_files)
    /\ LastOut = first_written[i - 1]
    /\ LastOut # OldDoc
    /\ out_dir["notes.txt"] = OldDoc

\* C19: the settings merger is a pure transformation: when to_application
\* has returned, the container definition and the runtime configuration it
\* was given hold the keys and values they held before the call, the
\* container's own spec.cloudInit included when spec.users or spec.chpasswd
\* is given too.
C19_InputsUnchanged ==
    Acted =>
      /\ main_container_def = LastDef
      /\ main_runtime_def = LastRuntime

\* the name the output of the j-th discovered file is to have: the file name
\* without its .container.yaml suffix, then .yaml
ClaimedOutName(j) == OutName(JoinStr(container_files[j].base, ""))

\* C20: each compile run writes exactly one output document per discovered
\* container-definition file, named <stem>.yaml with stem the file name
\* without the .container.yaml suffix, in place of whatever was at that path;
\* no other file of the output directory is created, modified or removed, and
\* the compiled count of the summary is the number of files written.
C20_OneOutputPerFile ==
    (pc = "done" /\ Len(container_files) > 0) =>
      LET claimed == {ClaimedOutName(j) : j \in 1..Len(container_files)}
          written == {n \in OutNames : out_dir[n] \notin PriorContents}
      IN  /\ \A j \in 1..Len(container_files) :
                out_dir[ClaimedOutName(j)]
                   = Dumped(to_application(ContainerDefAt(j), RuntimeDefAt(j)))
          /\ \A n \in OutNames \ claimed : out_dir[n] \in PriorContents
          /\ Cardinality(written) = Len(container_files)
          /\ stdout[Len(stdout)] = <<"summary", ToString(Cardinality(written))>>

----------------------------------------------------------------------------
(* The written document (claims C21, C22) *)

UserDataHeader == "        user_data: |"
BlockIndent == "          "

\* the line of a literal block of indentation BlockIndent whose content is x
InBlock(x) == IF x = "" THEN {"", BlockIndent} ELSE {BlockIndent \o x}

\* What a YAML parser reads as user_data from a document, as pieces of text:
\* the lines after the header that are blank or indented as the block is,
\* their indentation taken off, the blank lines at the end dropped and every
\* line ended by one line break.  The content of a line is looked for among
\* the lines cand.
ParsedUserData(doc, cand) ==
    LET heads  == Positions(doc, {UserDataHeader})
        p      == heads[1]
        lineOf == UNION {InBlock(x) : x \in cand}
        ends   == SelectSeq([j \in 1..(Len(doc) - p) |-> p + j],
                            LAMBDA j : doc[j] \notin lineOf)
        last   == IF Len(ends) > 0 THEN ends[1] - 1 ELSE Len(doc)
        body   == [j \in 1..(last - p) |->
                     CHOOSE x \in cand : doc[p + j] \in InBlock(x)]
        filled == SelectSeq([j \in 1..Len(body) |-> j], LAMBDA j : body[j] # "")
        kept   == IF Len(filled) = 0 THEN <<>> ELSE SubSeq(body, 1, filled[Len(filled)])
    IN  IF Len(heads) # 1 THEN <<"unparsed">>
        ELSE JoinLines(kept \o <<"">>)

\* C21: user_data is written as a literal block that reads back byte for
\* byte: for every generated cloud-init text, blank lines inside heredocs
\* included, what a parser reads at spec.resources[0].spec.cloud_init_data
\* .user_data of the written document is the generated text, and the
\* placeholder is not left in the document.
C21_UserDataRoundTrip ==
    Acted =>
      LET doc == LastOut
      IN  /\ ParsedUserData(doc, Range(LastLines) \cup {""}) = LastText
          /\ PlaceholderLine \notin Range(doc)
          /\ Len(Positions(doc, {UserDataHeader})) = 1

\* a text with an empty line in a unit and a line of spaces in a content
\* heredoc, written and read back
C21_Witness ==
    /\ Acted
    /\ LastContent = <<Index>>
    /\ Len(LastContainers) > 0
    /\ LET doc == LastOut
       IN  /\ BlockIndent \in Range(doc)
           /\ (BlockIndent \o "    ") \in Range(doc)
           /\ (BlockIndent \o "#cloud-config") \in Range(doc)
           /\ ParsedUserData(doc, Range(LastLines) \cup {""}) = LastText

\* C22: the written document has the top-level keys version, type, metadata
\* and spec and no other: the helper entry __rendered_user_data__ and its
\* payload are not in the written text, so the generated text is in the
\* document once, under user_data.
C22_HelperEntryAbsent ==
    Acted =>
      LET doc == LastOut
      IN  /\ DumpRendered(LastText)[1] \notin Range(doc)
          /\ "  #cloud-config" \notin Range(doc)
          /\ Len(Only(doc, {BlockIndent \o "runcmd:", "  runcmd:", "runcmd:"})) = 1

----------------------------------------------------------------------------
(* scripts/deploy.py, FleetManagerGitOps.run (lines 735-866): which files  *)
(* of the change list are handed to process_manifest.  A path is a         *)
(* directory and the pieces of the file name before ".yaml".               *)

COMPILED_DIR == "manifests/_compiled/"
APPLICATIONS_DIR == "manifests/applications/"
CONTAINERS_DIR == "manifests/containers/"
RUNTIME_DIR == "manifests/containers/runtime_configuration/"
RepoPath(dir, base) == [dir |-> dir, base |-> base]

\* the paths of the working tree, in the order sorted() gives them (line 202)
RepoPaths ==
    << RepoPath(COMPILED_DIR, <<"db">>),
       RepoPath(COMPILED_DIR, <<"demo">>),
       RepoPath(APPLICATIONS_DIR, <<"nginx">>),
       RepoPath(CONTAINERS_DIR, <<"db">>),
       RepoPath(CONTAINERS_DIR, <<"demo", ".container">>),
       RepoPath(RUNTIME_DIR, <<"demo", ".runtime">>),
       RepoPath(RUNTIME_DIR, <<"runtime">>) >>

\* a document of the working tree, by its type key; the type each has
TypedDoc(type) == <<"doc", type>>
TypeAt(p) ==
    IF p.dir \in {COMPILED_DIR, APPLICATIONS_DIR} THEN TypedDoc("Application")
    ELSE IF p.dir = CONTAINERS_DIR THEN TypedDoc("ContainerDefinition")
    ELSE TypedDoc("RuntimeConfiguration")

InOrder(S) == SelectSeq(RepoPaths, LAMBDA p : p \in S)

\* a slip in line 790: the compiled paths of the raw list are kept
WithoutCompiled_keeps_all(files) == files

\* line 790: [f for f in changed_files if not f.startswith('manifests/_compiled/')]
WithoutCompiled(files) == SelectSeq(files, LAMBDA f : f.dir # COMPILED_DIR)

\* lines 795-808: glob of *.container.yaml, then every other *.yaml of the
\* directory whose document has type ContainerDefinition
ContainerFilesFound(fs) ==
    SelectSeq(RepoPaths, LAMBDA p : /\ p.dir = CONTAINERS_DIR /\ fs[p] # Absent
                                     /\ p.base[Len(p.base)] = ".container")
    \o SelectSeq(RepoPaths, LAMBDA p : /\ p.dir = CONTAINERS_DIR /\ fs[p] # Absent
                                        /\ p.base[Len(p.base)] # ".container"
                                        /\ fs[p] = TypedDoc("ContainerDefinition"))

\* lines 814-816: the name, the per-app runtime file and the compiled path
ContainerName(cfile) == StemReplace(cfile.base)
PerAppRuntimePath(cfile) == RepoPath(RUNTIME_DIR, <<ContainerName(cfile), ".runtime">>)
GenericRuntimePath == RepoPath(RUNTIME_DIR, <<"runtime">>)
CompiledPath(cfile) == RepoPath(COMPILED_DIR, <<ContainerName(cfile)>>)

\* lines 819-823: the compiled outputs of the container files a source of
\* which is in the change list, when the output exists
CompiledToAdd(fs, files) ==
    LET hit(c) == /\ \E src \in {c, PerAppRuntimePath(c), GenericRuntimePath} :
                        src \in Range(files)
                  /\ CompiledPath(c) \in DOMAIN fs
                  /\ fs[CompiledPath(c)] # Absent
        found == ContainerFilesFound(fs)
    IN  [k \in 1..Len(SelectSeq(found, hit)) |-> CompiledPath(SelectSeq(found, hit)[k])]

\* lines 834-836: for p in compiled_to_add: append p unless it is there
RECURSIVE AppendNew(_, _)
AppendNew(files, ps) ==
    IF ps = <<>> THEN files
    ELSE AppendNew(IF ps[1] \in Range(files) THEN files ELSE Append(files, ps[1]),
                   Tail(ps))

\* lines 841-853: the files whose document is of type Application
ApplicationFiles(fs, files) == SelectSeq(files, LAMBDA f : fs[f] = TypedDoc("Application"))

NotReturned == <<"not returned">>

\* the files that may be missing from the working tree
Deletable ==
    { {}, {RepoPath(COMPILED_DIR, <<"db">>)}, {RepoPath(CONTAINERS_DIR, <<"demo", ".container">>)},
      {RepoPath(RUNTIME_DIR, <<"demo", ".runtime">>), RepoPath(RUNTIME_DIR, <<"runtime">>)} }

RunInit ==
    /\ \E gone \in Deletable :
           repo_files = [p \in Range(RepoPaths) |-> IF p \in gone THEN Absent ELSE TypeAt(p)]
    /\ \E S \in SUBSET Range(RepoPaths) : git_changed = InOrder(S)
    /\ run_env \in {[only_compile |-> TRUE, api_ok |-> TRUE],
                    [only_compile |-> FALSE, api_ok |-> FALSE],
                    [only_compile |-> FALSE, api_ok |-> TRUE]}
    /\ changed_files = <<>>
    /\ application_files = <<>>
    /\ processed = <<>>
    /\ run_result = NotReturned
    /\ run_pc = "start"
    /\ compile_at_rest /\ pm_at_rest /\ lookup_at_rest /\ cleanup_at_rest /\ testdeploy_at_rest
    /\ monitor_at_rest /\ lifecycle_at_rest

\* lines 752-853: the early returns, the change list without deleted files,
\* the mapping of sources to compiled outputs, the Application files
RunSelect ==
    /\ run_pc = "start"
    /\ LET existing == SelectSeq(git_changed, LAMBDA f : repo_files[f] # Absent)
           selected == AppendNew(WithoutCompiled(existing),
                                 CompiledToAdd(repo_files, WithoutCompiled(existing)))
       IN  IF run_env.only_compile \/ ~run_env.api_ok \/ existing = <<>>
           THEN /\ run_result' = (run_env.only_compile \/ run_env.api_ok)
                /\ run_pc' = "returned"
                /\ UNCHANGED <<changed_files, application_files>>
           ELSE /\ changed_files' = selected
                /\ application_files' = ApplicationFiles(repo_files, selected)
                /\ run_pc' = "process"
                /\ UNCHANGED run_result
    /\ UNCHANGED <<repo_files, git_changed, run_env, processed>>
    /\ UNCHANGED not_run

\* lines 857-859: the next file is handed to process_manifest
RunProcess ==
    /\ run_pc = "process"
    /\ Len(processed) < Len(application_files)
    /\ \E ok \in BOOLEAN :
           processed' = Append(processed,
                               [file |-> application_files[Len(processed) + 1], ok |-> ok])
    /\ UNCHANGED <<repo_files, git_changed, run_env, changed_files, application_files,
                   run_result, run_pc>>
    /\ UNCHANGED not_run

\* lines 861-866: the summary and the result
RunReturn ==
    /\ run_pc = "process"
    /\ Len(processed) = Len(application_files)
    /\ run_result' = (\A k \in 1..Len(processed) : processed[k].ok)
    /\ run_pc' = "returned"
    /\ UNCHANGED <<repo_files, git_changed, run_env, changed_files, application_files,
                   processed>>
    /\ UNCHANGED not_run

RunNext == RunSelect \/ RunProcess \/ RunReturn

RunSpec == RunInit /\ [][RunNext]_vars

\* the sources of a compiled manifest: the container definition files compiled
\* to it, the per-app runtime file of its name, the generic runtime file
SourcesOfCompiled(p) ==
    {c \in Range(RepoPaths) : c.dir = CONTAINERS_DIR /\ CompiledPath(c) = p}
        \cup {RepoPath(RUNTIME_DIR, <<JoinStr(p.base, ""), ".runtime">>), GenericRuntimePath}

HandedOver == {processed[k].file : k \in 1..Len(processed)}

\* C23: a compiled manifest is handed to process_manifest only when one of its
\* sources is in the change list of this run; a compiled path of the raw list
\* without a changed source is in neither changed_files nor application_files
C23_CompiledOnlyWhenSourceChanged ==
    \A p \in HandedOver \cup Range(changed_files) \cup Range(application_files) :
        p.dir = COMPILED_DIR => SourcesOfCompiled(p) \cap Range(git_changed) # {}

\* the raw list names both compiled manifests and the source of one of them:
\* that one was processed, the other was not
C23_Witness ==
    /\ run_pc = "returned"
    /\ {RepoPath(COMPILED_DIR, <<"db">>), RepoPath(COMPILED_DIR, <<"demo">>),
        RepoPath(CONTAINERS_DIR, <<"demo", ".container">>)} \subseteq Range(git_changed)
    /\ SourcesOfCompiled(RepoPath(COMPILED_DIR, <<"db">>)) \cap Range(git_changed) = {}
    /\ RepoPath(COMPILED_DIR, <<"demo">>) \in HandedOver
    /\ RepoPath(COMPILED_DIR, <<"db">>) \notin HandedOver

----------------------------------------------------------------------------
(* scripts/deploy.py, FleetManagerGitOps.process_manifest (lines 579-733). *)
(* A parsed document is the sequence of its (key, value) pairs in the      *)
(* order of the file; a value is a sequence of pieces of text, so that     *)
(* trailing white space is a trailing piece " ".                           *)

\* the keys of the documents, as sort_keys orders them
SortedKeys == <<"user_data", "version">>
ValueOf(obj, k) == obj[CHOOSE j \in 1..Len(obj) : obj[j][1] = k][2]

\* a slip in line 55: json.dumps(obj) without sort_keys
normalize_keeps_order(obj) == obj

\* json.dumps(obj, sort_keys=True, separators=(",", ":")), lines 51-57
normalize(obj) ==
    LET present == SelectSeq(SortedKeys, LAMBDA k : \E j \in 1..Len(obj) : obj[j][1] = k)
    IN  [n \in 1..Len(present) |-> <<present[n], ValueOf(obj, present[n])>>]

RECURSIVE rstrip(_)
\* str.rstrip(), line 93
rstrip(text) ==
    IF text # <<>> /\ text[Len(text)] = " " THEN rstrip(SubSeq(text, 1, Len(text) - 1))
    ELSE text

\* lines 71-97: the user_data of the document loses its trailing white space
normalize_manifest_structure(manifest) ==
    [j \in 1..Len(manifest) |->
        IF manifest[j][1] = "user_data" THEN <<"user_data", rstrip(manifest[j][2])>>
        ELSE manifest[j]]

\* get_deployment_application returned None (lines 245, 248)
NoApplication == [id |-> "", sourceConfig |-> <<>>]

\* lines 645-657: content_changed, from what get_deployment_application returned
ContentChanged(looked, manifest) ==
    IF looked # NoApplication /\ looked.sourceConfig # <<>>
    THEN normalize(normalize_manifest_structure(looked.sourceConfig))
             # normalize(normalize_manifest_structure(manifest))
    ELSE TRUE

\* line 690: the cluster groups list_cluster_groups returns
KnownGroups == {"g1", "g2"}

Manifests ==
    { << <<"version", <<v>> >>, <<"user_data", u>> >> : v \in {"1", "2"}, u \in {<<"x">>, <<"x", " ">>} }
        \cup { << <<"user_data", <<"x">> >>, <<"version", <<"1">> >> >> }

ApiCall(call, name, ok) == [call |-> call, name |-> name, ok |-> ok]

PmInit ==
    /\ pm_input \in [file : {"unreadable", "not targeted", "targeted"},
                     manifest : {<< <<"version", <<"1">> >>, <<"user_data", <<"x">> >> >>},
                     group_names : {<<"g1">>, <<"g1", "g2">>, <<"g2", "g9">>},
                     skip_deployment_trigger : BOOLEAN]
    /\ remote_app \in {NoApplication} \cup [id : {"a1"}, sourceConfig : Manifests \cup {<<>>}]
    /\ remote_deps \in SUBSET KnownGroups
    /\ existing_app = NoApplication
    /\ content_changed = TRUE
    /\ api_calls = <<>>
    /\ pm_k = 1
    /\ pm_all_ok = TRUE
    /\ pm_result = NotReturned
    /\ pm_pc = "start"
    /\ compile_at_rest /\ run_at_rest /\ lookup_at_rest /\ cleanup_at_rest /\ testdeploy_at_rest
    /\ monitor_at_rest /\ lifecycle_at_rest

\* lines 583-696: the manifest is loaded, the application is looked up,
\* compared, updated or created; the early returns before the deployments
PmApplication ==
    /\ pm_pc = "start"
    /\ IF pm_input.file # "targeted"
       THEN /\ pm_result' = (pm_input.file = "not targeted")
            /\ pm_pc' = "returned"
            /\ UNCHANGED <<remote_app, existing_app, content_changed, api_calls>>
       ELSE \E looked \in {remote_app, NoApplication}, ok \in BOOLEAN :
              LET changed == ContentChanged(looked, pm_input.manifest)
                  call == IF looked.id = ""
                          THEN <<ApiCall("create_deployment_application", "app", ok)>>
                          ELSE IF changed
                          THEN <<ApiCall("update_deployment_application", "app", ok)>>
                          ELSE <<>>
                  success == call = <<>> \/ ok
              IN  /\ existing_app' = looked
                  /\ content_changed' = changed
                  /\ api_calls' = api_calls \o call
                  /\ remote_app' = IF call # <<>> /\ ok
                                   THEN [id |-> "a1", sourceConfig |-> pm_input.manifest]
                                   ELSE remote_app
                  /\ IF ~success
                     THEN pm_result' = FALSE /\ pm_pc' = "returned"
                     ELSE IF pm_input.skip_deployment_trigger
                     THEN pm_result' = TRUE /\ pm_pc' = "returned"
                     ELSE IF Range(pm_input.group_names) \ KnownGroups # {}
                     THEN pm_result' = FALSE /\ pm_pc' = "returned"
                     ELSE pm_result' = pm_result /\ pm_pc' = "deployments"
    /\ UNCHANGED <<pm_input, remote_deps, pm_k, pm_all_ok>>
    /\ UNCHANGED not_pm

\* lines 699-729, one iteration of the loop over group_names: the deployment
\* is looked up; found, it is released when the content changed; not found,
\* it is created, and released when the creation gave an id
PmDeployment ==
    /\ pm_pc = "deployments"
    /\ pm_k <= Len(pm_input.group_names)
    /\ LET g == pm_input.group_names[pm_k] IN
       \E found \in {g \in remote_deps, FALSE}, ok \in BOOLEAN, released \in BOOLEAN :
          LET find == <<ApiCall("find_deployment", g, found)>>
              rel == <<ApiCall("trigger_deployment_release", g, released)>>
          IN  IF found
              THEN /\ api_calls' = api_calls \o find \o (IF content_changed THEN rel ELSE <<>>)
                   /\ pm_all_ok' = (pm_all_ok /\ (content_changed => released))
                   /\ UNCHANGED remote_deps
              ELSE /\ api_calls' = api_calls \o find
                                      \o <<ApiCall("create_deployment", g, ok)>>
                                      \o (IF ok THEN rel ELSE <<>>)
                   /\ pm_all_ok' = (pm_all_ok /\ ok /\ released)
                   /\ remote_deps' = IF ok THEN remote_deps \cup {g} ELSE remote_deps
    /\ pm_k' = pm_k + 1
    /\ UNCHANGED <<pm_input, remote_app, existing_app, content_changed, pm_result, pm_pc>>
    /\ UNCHANGED not_pm

\* line 731: return all_ok
PmReturn ==
    /\ pm_pc = "deployments"
    /\ pm_k > Len(pm_input.group_names)
    /\ pm_result' = pm_all_ok
    /\ pm_pc' = "returned"
    /\ UNCHANGED <<pm_input, remote_app, remote_deps, existing_app, content_changed,
                   api_calls, pm_k, pm_all_ok>>
    /\ UNCHANGED not_pm

PmNext == PmApplication \/ PmDeployment \/ PmReturn

PmSpec == PmInit /\ [][PmNext]_vars

\* the calls of one kind made so far, and what the claim's words mean
Calls(kind) == {n \in 1..Len(api_calls) : api_calls[n].call = kind}
AsMapping(doc) == {<<doc[j][1], rstrip(doc[j][2])>> : j \in 1..Len(doc)}
ContentEqual ==
    /\ existing_app # NoApplication
    /\ existing_app.sourceConfig # <<>>
    /\ AsMapping(existing_app.sourceConfig) = AsMapping(pm_input.manifest)
\* the loop iteration that ends at call n - 1 found the deployment / created it
FoundBefore(n) ==
    \/ api_calls[n - 1].call = "find_deployment" /\ api_calls[n - 1].ok
CreatedBefore(n) ==
    \/ api_calls[n - 1].call = "create_deployment" /\ api_calls[n - 1].ok
\* a release follows call n of the same loop iteration
ReleaseAfter(n) ==
    /\ n < Len(api_calls)
    /\ api_calls[n + 1].call = "trigger_deployment_release"
    /\ api_calls[n + 1].name = api_calls[n].name

ReleaseExactlyWhenCreatedOrChanged ==
    /\ \A n \in Calls("trigger_deployment_release") :
          CreatedBefore(n) \/ (FoundBefore(n) /\ ~ContentEqual /\ pm_pc # "start")
    /\ \A n \in Calls("create_deployment") : api_calls[n].ok => ReleaseAfter(n)
    /\ \A n \in Calls("find_deployment") :
          (api_calls[n].ok /\ ~ContentEqual) => ReleaseAfter(n)
SkipMeansNoDeployment ==
    pm_input.skip_deployment_trigger =>
        Calls("find_deployment") \cup Calls("create_deployment")
            \cup Calls("trigger_deployment_release") = {}

\* C24 (as amended): a release is triggered for a deployment exactly when it
\* was created in this call, or it was found and the content changed; with
\* equal normalized content no application update call is made and a release
\* is triggered only for a deployment created in this call; with
\* SKIP_DEPLOYMENT_TRIGGER no deployment is looked up, created or released
C24_ReleaseOnlyWhenCreatedOrChanged ==
    pm_pc # "start" =>
        /\ ReleaseExactlyWhenCreatedOrChanged
        /\ ContentEqual =>
              /\ Calls("update_deployment_application") = {}
              /\ \A n \in Calls("trigger_deployment_release") : CreatedBefore(n)
        /\ SkipMeansNoDeployment

\* the content is equal, one deployment was found and another was missing:
\* no update, no release of the first, creation and release of the second
C24_Witness ==
    /\ pm_pc = "returned"
    /\ ContentEqual
    /\ existing_app.sourceConfig # pm_input.manifest
    /\ \E n \in Calls("find_deployment") : api_calls[n].ok /\ ~ReleaseAfter(n)
    /\ \E n \in Calls("trigger_deployment_release") : CreatedBefore(n)

\* C24 (as stated): ... and when the existing application's normalized content
\* equals the manifest's, no application update call and no release trigger
\* call is made
C24_NoReleaseWhenContentEqual ==
    pm_pc # "start" =>
        /\ ReleaseExactlyWhenCreatedOrChanged
        /\ ContentEqual =>
              /\ Calls("update_deployment_application") = {}
              /\ Calls("trigger_deployment_release") = {}
        /\ SkipMeansNoDeployment

----------------------------------------------------------------------------
(* scripts/deploy.py, get_deployment_application (lines 227-248) and       *)
(* find_deployment (lines 351-372): the lookup by name over the pages the  *)
(* server returns.  A page holds the names of its items and its `next`     *)
(* link: the number of a page, or 0 for a missing or empty link.           *)

MaxPages == 3

NoneFound == <<"None">>
\* the item at a position of a page: its name, its id
ItemAt(p, n) == <<"item", pages[p].names[n], <<p, n>> >>

\* a slip in lines 243 / 367: the next link is not followed
NextUrl_first_page_only(data) == 0

\* data.get('next'), lines 243 and 367
NextUrl(data) == data.next

\* lines 238-240 / 362-364: the first item of the page whose name is the one
\* looked for; the application itself, or the deployment's id
MatchOn(p, name) == {n \in 1..Len(pages[p].names) : pages[p].names[n] = name}
FirstOn(p, name) == CHOOSE n \in MatchOn(p, name) : \A o \in MatchOn(p, name) : n <= o
Returned(fn, p, n) ==
    IF fn = "get_deployment_application" THEN ItemAt(p, n) ELSE <<"id", ItemAt(p, n)[3]>>

LookupInit ==
    /\ pages \in [1..MaxPages ->
                    [names : {<<"other">>, <<"other", "app", "app">>, <<"app">>},
                     next : 0..MaxPages]]
    /\ \A p \in 1..MaxPages : pages[p].next \in {0, 1, p + 1}
    /\ failing \in 0..MaxPages
    /\ lookup_fn \in {"get_deployment_application", "find_deployment"}
    /\ url = 1
    /\ fetched = {}
    /\ refetched = FALSE
    /\ lookup_result = NotReturned
    /\ lookup_pc = "loop"
    /\ compile_at_rest /\ run_at_rest /\ pm_at_rest /\ cleanup_at_rest /\ testdeploy_at_rest
    /\ monitor_at_rest /\ lifecycle_at_rest

\* lines 234-243 / 358-367, one iteration of `while url`: the page is
\* fetched, a matching item ends the lookup, else the next link is taken
LookupPage ==
    /\ lookup_pc = "loop"
    /\ url # 0
    /\ url # failing
    /\ fetched' = fetched \cup {url}
    /\ refetched' = (refetched \/ url \in fetched)
    /\ IF MatchOn(url, "app") # {}
       THEN /\ lookup_result' = Returned(lookup_fn, url, FirstOn(url, "app"))
            /\ lookup_pc' = "returned"
            /\ url' = url
       ELSE /\ url' = NextUrl(pages[url])
            /\ UNCHANGED <<lookup_result, lookup_pc>>
    /\ UNCHANGED <<pages, failing, lookup_fn>>
    /\ UNCHANGED not_lookup

\* lines 246-248 / 370-372: requests.get, raise_for_status or json raises
LookupFails ==
    /\ lookup_pc = "loop"
    /\ url # 0
    /\ url = failing
    /\ fetched' = fetched \cup {url}
    /\ refetched' = (refetched \/ url \in fetched)
    /\ lookup_result' = NoneFound
    /\ lookup_pc' = "returned"
    /\ UNCHANGED <<pages, failing, lookup_fn, url>>
    /\ UNCHANGED not_lookup

\* line 245 / 369: the loop ended, return None
LookupExhausted ==
    /\ lookup_pc = "loop"
    /\ url = 0
    /\ lookup_result' = NoneFound
    /\ lookup_pc' = "returned"
    /\ UNCHANGED <<pages, failing, lookup_fn, url, fetched, refetched>>
    /\ UNCHANGED not_lookup

LookupNext == LookupPage \/ LookupFails \/ LookupExhausted

LookupSpec == LookupInit /\ [][LookupNext]_vars

\* the pages the next links lead through from the first page, at most MaxPages
RECURSIVE ChainFrom(_, _)
ChainFrom(p, fuel) ==
    IF p = 0 \/ fuel = 0 THEN <<>> ELSE <<p>> \o ChainFrom(pages[p].next, fuel - 1)
Chain == ChainFrom(1, MaxPages)
\* the chain is finite when the links lead to a page without a next link
RECURSIVE EndOf(_, _)
EndOf(p, fuel) == IF p = 0 \/ fuel = 0 THEN p ELSE EndOf(pages[p].next, fuel - 1)
ChainIsFinite == EndOf(1, MaxPages) = 0
\* the first place of the chain with an item of that name, the first failing place
Least(S) == CHOOSE n \in S : \A o \in S : n <= o
HasMatch(p) == \E n \in 1..Len(pages[p].names) : pages[p].names[n] = "app"
MatchPlaces == {n \in 1..Len(Chain) : HasMatch(Chain[n])}
FailPlaces == {n \in 1..Len(Chain) : Chain[n] = failing}
FirstMatchItem ==
    LET p == Chain[Least(MatchPlaces)]
        n == Least({o \in 1..Len(pages[p].names) : pages[p].names[o] = "app"})
    IN  <<"item", "app", <<p, n>> >>
ExpectedResult ==
    IF /\ MatchPlaces # {}
       /\ \A e \in FailPlaces : Least(MatchPlaces) < e
    THEN IF lookup_fn = "get_deployment_application" THEN FirstMatchItem
         ELSE <<"id", FirstMatchItem[3]>>
    ELSE NoneFound

\* C29: the lookup follows the next links page by page and returns the first
\* item of that name over the pages (its id, for find_deployment), None when
\* no page holds one or a request fails first; when the chain of next links
\* is finite no page is requested twice, so the loop ends after at most as
\* many requests as there are pages, and until it has returned it can go on
C29_PaginatedLookup ==
    /\ lookup_pc = "returned" => lookup_result = ExpectedResult
    /\ ChainIsFinite => ~refetched /\ Cardinality(fetched) <= Len(Chain)
    /\ lookup_pc = "loop" => ENABLED LookupNext

\* the item was found on the third page of a finite chain
C29_Witness ==
    /\ lookup_pc = "returned"
    /\ ChainIsFinite
    /\ Cardinality(fetched) = 3
    /\ lookup_result # NoneFound
    /\ failing = 0

----------------------------------------------------------------------------
(* scripts/cleanup-test-apps.py, TestAppCleanup.cleanup_test_apps (lines   *)
(* 98-162) and scripts/full-test-cleanup.py, FullTestCleanup.full_cleanup  *)
(* (lines 210-360).  A name is the sequence of its pieces, so that         *)
(* "web-test-g1" is <<"web", "-test-", "g1">>.                             *)

\* app_name.endswith('-test'), line 42 (full-test-cleanup.py:48)
IsTestApplication(name) == name[Len(name)] = "-test"
\* '-test-' in dep_name, line 66 (full-test-cleanup.py:72)
IsTestDeployment(name) == \E n \in 1..Len(name) : name[n] = "-test-"

\* the applications and deployments the server may hold, in the order it lists them
ListedApplications == << <<"web", "-test">>, <<"web">>, <<"db", "-test">> >>
ListedDeployments ==
    << <<"web", "-test-", "g1">>, <<"web", "-", "g1">>, <<"db", "-test-", "g1">> >>
\* app.get('sourceConfig', ''), full-test-cleanup.py:279
HasSourceConfig(name) == name[1] = "web"

\* get_test_applications / get_test_deployments: [] unless the status is 200
Listing(found, status) == IF status = 200 THEN found ELSE <<>>

\* a slip in main: dry_run=False whatever the arguments
DryRun_never(args) == FALSE

\* dry_run=not args.execute, cleanup-test-apps.py:172 (full-test-cleanup.py:373)
DryRun(args) == ~args.execute

Request(op, name, outcome) == [op |-> op, name |-> name, outcome |-> outcome]

CleanupInit ==
    /\ cl_script \in {"cleanup-test-apps.py", "full-test-cleanup.py"}
    /\ cl_args \in [execute : BOOLEAN, no_vm_cleanup : BOOLEAN]
    /\ cl_script = "cleanup-test-apps.py" => ~cl_args.no_vm_cleanup
    /\ fm_apps \in SUBSET Range(ListedApplications)
    /\ fm_deps \in SUBSET Range(ListedDeployments)
    /\ fm_before = [apps |-> fm_apps, deps |-> fm_deps]
    /\ get_status \in [apps : {200, 503}, deps : {200, 503}]
    /\ test_apps = <<>>
    /\ test_deployments = <<>>
    /\ cl_log = <<>>
    /\ cl_k = 1
    /\ cl_pc = "start"
    /\ compile_at_rest /\ run_at_rest /\ pm_at_rest /\ lookup_at_rest
    /\ testdeploy_at_rest /\ monitor_at_rest /\ lifecycle_at_rest

\* cleanup-test-apps.py:98-141 and full-test-cleanup.py:210-261: what is
\* found, the returns when nothing is found, the return of a dry run
CleanupFind ==
    /\ cl_pc = "start"
    /\ LET apps == Listing(SelectSeq(ListedApplications,
                                     LAMBDA n : n \in fm_apps /\ IsTestApplication(n)),
                            get_status.apps)
           deps == Listing(SelectSeq(ListedDeployments,
                                     LAMBDA n : n \in fm_deps /\ IsTestDeployment(n)),
                            get_status.deps)
           full == cl_script = "full-test-cleanup.py"
       IN  /\ test_apps' = apps
           /\ test_deployments' = IF ~full /\ apps = <<>> THEN <<>> ELSE deps
           /\ cl_pc' = IF apps = <<>> /\ (~full \/ deps = <<>>) THEN "returned"
                       ELSE IF DryRun(cl_args) THEN "returned"
                       ELSE IF full /\ ~cl_args.no_vm_cleanup /\ apps # <<>> THEN "vm cleanup"
                       ELSE "delete"
    /\ UNCHANGED <<cl_script, cl_args, fm_apps, fm_deps, fm_before, get_status, cl_log, cl_k>>
    /\ UNCHANGED not_cleanup

\* full-test-cleanup.py:271-314, one iteration of step 1: the cleanup
\* manifest is written to a temporary file, deployed, waited for, and the
\* file is removed; an application without sourceConfig is passed over
CleanupVm ==
    /\ cl_pc = "vm cleanup"
    /\ LET name == test_apps[cl_k] IN
       \E made \in BOOLEAN, deployed \in BOOLEAN :
          cl_log' = cl_log \o
              (IF HasSourceConfig(name) /\ made
               THEN <<Request("temporary file", name, "removed"),
                      Request("deploy cleanup manifest", name,
                              IF deployed THEN "ok" ELSE "failed")>>
               ELSE <<>>)
    /\ IF cl_k = Len(test_apps)
       THEN cl_pc' = "delete" /\ cl_k' = 1
       ELSE cl_pc' = cl_pc /\ cl_k' = cl_k + 1
    /\ UNCHANGED <<cl_script, cl_args, fm_apps, fm_deps, fm_before, get_status,
                   test_apps, test_deployments>>
    /\ UNCHANGED not_cleanup

\* cleanup-test-apps.py:143-148 (full-test-cleanup.py:316-328), one iteration:
\* DELETE of a deployment; 204 removes it, another status is counted as
\* failed, an exception of requests.delete is caught nowhere
CleanupDeleteDeployment ==
    /\ cl_pc = "delete"
    /\ cl_k <= Len(test_deployments)
    /\ \E outcome \in {"204", "409", "raised"} :
          /\ cl_log' = Append(cl_log, Request("DELETE deployment", test_deployments[cl_k], outcome))
          /\ fm_deps' = IF outcome = "204" THEN fm_deps \ {test_deployments[cl_k]} ELSE fm_deps
          /\ cl_pc' = IF outcome = "raised" THEN "raised" ELSE cl_pc
    /\ cl_k' = cl_k + 1
    /\ UNCHANGED <<cl_script, cl_args, fm_apps, fm_before, get_status, test_apps,
                   test_deployments>>
    /\ UNCHANGED not_cleanup

\* cleanup-test-apps.py:150-156 (full-test-cleanup.py:330-342), one iteration:
\* DELETE of an application, after the loop over the deployments
CleanupDeleteApplication ==
    /\ cl_pc = "delete"
    /\ cl_k > Len(test_deployments)
    /\ cl_k <= Len(test_deployments) + Len(test_apps)
    /\ LET name == test_apps[cl_k - Len(test_deployments)] IN
       \E outcome \in {"204", "409", "raised"} :
          /\ cl_log' = Append(cl_log, Request("DELETE application", name, outcome))
          /\ fm_apps' = IF outcome = "204" THEN fm_apps \ {name} ELSE fm_apps
          /\ cl_pc' = IF outcome = "raised" THEN "raised" ELSE cl_pc
    /\ cl_k' = cl_k + 1
    /\ UNCHANGED <<cl_script, cl_args, fm_deps, fm_before, get_status, test_apps,
                   test_deployments>>
    /\ UNCHANGED not_cleanup

\* cleanup-test-apps.py:158-162 (full-test-cleanup.py:344-360): the summary
CleanupReturn ==
    /\ cl_pc = "delete"
    /\ cl_k > Len(test_deployments) + Len(test_apps)
    /\ cl_pc' = "returned"
    /\ UNCHANGED <<cl_script, cl_args, fm_apps, fm_deps, fm_before, get_status,
                   test_apps, test_deployments, cl_log, cl_k>>
    /\ UNCHANGED not_cleanup

CleanupNext ==
    \/ CleanupFind \/ CleanupVm \/ CleanupDeleteDeployment
    \/ CleanupDeleteApplication \/ CleanupReturn

CleanupSpec == CleanupInit /\ [][CleanupNext]_vars

Attempted(op) == {cl_log[n].name : n \in {o \in 1..Len(cl_log) : cl_log[o].op = op}}
IsDelete(n) == cl_log[n].op \in {"DELETE deployment", "DELETE application"}

\* C25: in execute mode the deletion of every found test deployment is
\* attempted before that of any test application, the VM cleanup deployments
\* of full cleanup come before any deletion, and a deletion that fails does
\* not stop the attempts on the remaining items: once the run is over, every
\* found deployment and application has had its attempt
C25_DeploymentsFirstAllAttempted ==
    /\ \A n, o \in 1..Len(cl_log) :
          /\ (cl_log[n].op = "DELETE application" /\ cl_log[o].op = "DELETE deployment") => o < n
          /\ (IsDelete(n) /\ ~IsDelete(o)) => o < n
    /\ \A n \in 1..Len(cl_log) :
          cl_log[n].op = "DELETE application" => Attempted("DELETE deployment") = Range(test_deployments)
    /\ (cl_pc \in {"returned", "raised"} /\ Len(cl_log) > 0 /\ \E n \in 1..Len(cl_log) : IsDelete(n)) =>
          /\ Attempted("DELETE deployment") = Range(test_deployments)
          /\ Attempted("DELETE application") = Range(test_apps)

\* C26: in a dry run no DELETE request is issued, no cleanup manifest is
\* deployed, no temporary file is created, and the applications and
\* deployments of the server are what they were, on every path
C26_DryRunChangesNothing ==
    ~cl_args.execute =>
        /\ cl_log = <<>>
        /\ fm_apps = fm_before.apps
        /\ fm_deps = fm_before.deps
        /\ cl_pc \in {"start", "returned"}

\* a dry run of full cleanup that found test applications and deployments
C26_Witness ==
    /\ ~cl_args.execute
    /\ cl_script = "full-test-cleanup.py"
    /\ cl_pc = "returned"
    /\ Len(test_apps) = 2
    /\ Len(test_deployments) = 2

----------------------------------------------------------------------------
(* scripts/test-deploy.py, create_test_manifest and deploy_test_manifest   *)
(* (lines 12-86), and scripts/deploy-with-test-mode.py, TestModeDeployer   *)
(* (lines 26-83).  A path is the sequence of the pieces of its text, so    *)
(* that "manifests/app.yaml" is <<"manifests/", "app", ".yaml">>.          *)

RECURSIVE ReplaceYaml(_)
\* manifest_path.replace('.yaml', '-test.yaml'), test-deploy.py:36
\* (deploy-with-test-mode.py:48): every occurrence is replaced
ReplaceYaml(path) ==
    IF path = <<>> THEN <<>>
    ELSE (IF path[1] = ".yaml" THEN <<"-test", ".yaml">> ELSE <<path[1]>>)
             \o ReplaceYaml(Tail(path))

\* the directories that exist, and the directory a path lies in
ExistingDirs == {<<"manifests/">>, <<"conf", ".yaml", ".d/">>}
DirOf(path) ==
    LET ends == {n \in 1..Len(path) : path[n] \in {"manifests/", ".d/"}}
    IN  SubSeq(path, 1, CHOOSE n \in ends : \A o \in ends : o <= n)

ManifestPaths ==
    { <<"manifests/", "app", ".yaml">>, <<"manifests/", "app", ".yml">>,
      <<"conf", ".yaml", ".d/", "app", ".yaml">> }

\* the documents a manifest file may hold
WithMetadata == <<"doc", "nginx", <<"prod-a", "prod-b">>, "web server">>
NoMetadata == <<"doc">>
Unloadable == <<"unloadable">>

\* test-deploy.py:20-33 (deploy-with-test-mode.py:32-45): the copy with the
\* test cluster group, the name with -test, the description with [TEST]
TestVersion(manifest, group) ==
    IF manifest = NoMetadata THEN manifest
    ELSE <<"doc", manifest[2] \o "-test", <<group>>, "[TEST] " \o manifest[4]>>

\* os.remove(test_manifest_path), test-deploy.py:85 (deploy-with-test-mode.py:79)
RemoveFile(files, path) == [files EXCEPT ![path] = Absent]

NoPath == <<>>

TestDeployInit ==
    /\ td_script \in {"test-deploy.py", "deploy-with-test-mode.py"}
    /\ test_mode \in BOOLEAN
    /\ td_script = "test-deploy.py" => test_mode
    /\ test_cluster_group \in {"dd_szt15b", "lab"}
    /\ manifest_path \in ManifestPaths
    /\ \E original \in {WithMetadata, NoMetadata, Unloadable},
          other \in {Absent, WithMetadata} :
          /\ td_original = original
          /\ td_files = [p \in ManifestPaths \cup {ReplaceYaml(q) : q \in ManifestPaths} |->
                            IF p = manifest_path THEN original
                            ELSE IF p = ReplaceYaml(manifest_path) /\ DirOf(p) \in ExistingDirs
                            THEN other
                            ELSE Absent]
    /\ test_manifest_path = NoPath
    /\ td_result = NotReturned
    /\ td_pc = "start"
    /\ compile_at_rest /\ run_at_rest /\ pm_at_rest /\ lookup_at_rest /\ cleanup_at_rest
    /\ monitor_at_rest /\ lifecycle_at_rest

\* test-deploy.py:12-40 (deploy-with-test-mode.py:26-52): the manifest is
\* read, its test version is written beside it; reading or writing may raise
\* (deploy-with-test-mode.py:81-83: without test_mode the original is deployed)
TestDeployCreate ==
    /\ td_pc = "start"
    /\ IF ~test_mode
       THEN /\ \E ok \in BOOLEAN : td_result' = ok
            /\ td_pc' = "returned"
            /\ UNCHANGED <<td_files, test_manifest_path>>
       ELSE IF td_files[manifest_path] = Unloadable
                 \/ DirOf(ReplaceYaml(manifest_path)) \notin ExistingDirs
       THEN /\ td_pc' = "raised"
            /\ UNCHANGED <<td_files, test_manifest_path, td_result>>
       ELSE /\ td_files' = [td_files EXCEPT ![ReplaceYaml(manifest_path)] =
                                TestVersion(td_files[manifest_path], test_cluster_group)]
            /\ test_manifest_path' = ReplaceYaml(manifest_path)
            /\ td_pc' = "deploy"
            /\ UNCHANGED td_result
    /\ UNCHANGED <<td_script, test_mode, test_cluster_group, manifest_path, td_original>>
    /\ UNCHANGED not_testdeploy

\* test-deploy.py:50-86 (deploy-with-test-mode.py:62-80): the test manifest
\* is deployed, which succeeds, fails or raises, and the finally clause
\* removes the file when it exists
TestDeployRun ==
    /\ td_pc = "deploy"
    /\ \E outcome \in {"ok", "failed", "raised"} :
          /\ td_result' = IF outcome = "raised" THEN td_result ELSE (outcome = "ok")
          /\ td_pc' = IF outcome = "raised" THEN "raised" ELSE "returned"
    /\ td_files' = IF td_files[test_manifest_path] # Absent
                   THEN RemoveFile(td_files, test_manifest_path)
                   ELSE td_files
    /\ UNCHANGED <<td_script, test_mode, test_cluster_group, manifest_path, td_original,
                   test_manifest_path>>
    /\ UNCHANGED not_testdeploy

TestDeployNext == TestDeployCreate \/ TestDeployRun

TestDeploySpec == TestDeployInit /\ [][TestDeployNext]_vars

\* C27: whatever the manifest path, once the function has returned or raised
\* the temporary test manifest no longer exists and the original manifest
\* file exists with its original content
C27_OriginalManifestUntouched ==
    td_pc \in {"returned", "raised"} =>
        /\ test_manifest_path # NoPath => td_files[test_manifest_path] = Absent
        /\ td_files[manifest_path] = td_original

----------------------------------------------------------------------------
(* scripts/monitor_deployment_releases.py, DeploymentReleaseMonitor:       *)
(* monitor_deployment (lines 107-186) and report_deployment_results        *)
(* (lines 188-243).  Time is counted in seconds since the start_time of    *)
(* the deployment that is being monitored.                                 *)

\* result.get("final_status", result.get("status", "Unknown")), line 213
StatusOf(result) ==
    IF "final_status" \in DOMAIN result THEN result.final_status
    ELSE IF "status" \in DOMAIN result THEN result.status
    ELSE "Unknown"

\* lines 122 (error), 160-170 (completed) and 180-186 (timeout): the results
ErrorResult == [status |-> "error"]
TimeoutResult(id) == [status |-> "timeout", deployment_id |-> id]
FinalResult(id, release_status) == [deployment_id |-> id, final_status |-> release_status]

\* results[deployment_id] = result, line 204: a dict keyed by the id
StoreResult(res, id, result) ==
    [d \in DOMAIN res \cup {id} |-> IF d = id THEN result ELSE res[d]]

\* lines 207-226: the counts over results.items(), line 236: the total
Summary(ids, res) ==
    LET count(s) == Cardinality({d \in DOMAIN res : StatusOf(res[d]) = s})
    IN  [total |-> Len(ids), success |-> count("Success"), failed |-> count("Failed"),
         timeout |-> count("timeout"), error |-> count("error")]

NoSummary == [total |-> 0, success |-> 0, failed |-> 0, timeout |-> 0, error |-> 0]
NoRelease == "no release"

MonitorInit ==
    /\ deployment_ids \in {<<"d1">>, <<"d1", "d2">>, <<"d1", "d1">>, <<"d2", "d1", "d2">>}
    /\ details_ok \in [{"d1", "d2"} -> BOOLEAN]
    /\ timeout_minutes \in {0, 1, 2}
    /\ check_interval \in {30, 60}
    /\ mon_k = 1
    /\ monitoring = FALSE
    /\ elapsed = 0
    /\ latest = NoRelease
    /\ results = <<>>
    /\ summary = NoSummary
    /\ mon_pc = "monitor"
    /\ compile_at_rest /\ run_at_rest /\ pm_at_rest /\ lookup_at_rest /\ cleanup_at_rest
    /\ testdeploy_at_rest /\ lifecycle_at_rest

\* lines 202-204 and 117-128: report_deployment_results calls
\* monitor_deployment for the next id; without the deployment's details the
\* result is an error
MonitorBegin ==
    /\ mon_pc = "monitor"
    /\ ~monitoring
    /\ mon_k <= Len(deployment_ids)
    /\ elapsed' = 0
    /\ latest' = NoRelease
    /\ IF details_ok[deployment_ids[mon_k]]
       THEN /\ monitoring' = TRUE
            /\ UNCHANGED <<results, mon_k>>
       ELSE /\ results' = StoreResult(results, deployment_ids[mon_k], ErrorResult)
            /\ mon_k' = mon_k + 1
            /\ UNCHANGED monitoring
    /\ UNCHANGED <<deployment_ids, details_ok, timeout_minutes, check_interval, summary, mon_pc>>
    /\ UNCHANGED not_monitor

\* lines 130-178, one iteration of the while loop: the releases are fetched;
\* a latest release that is Success or Failed ends the monitoring, anything
\* else is followed by time.sleep(check_interval)
MonitorPoll ==
    /\ mon_pc = "monitor"
    /\ monitoring
    /\ elapsed < timeout_minutes * 60
    /\ \E release_status \in {NoRelease, "Created", "Running", "Success", "Failed", "Cancelled"} :
          /\ latest' = release_status
          /\ IF release_status \in {"Success", "Failed"}
             THEN /\ results' = StoreResult(results, deployment_ids[mon_k],
                                            FinalResult(deployment_ids[mon_k], release_status))
                  /\ monitoring' = FALSE
                  /\ mon_k' = mon_k + 1
                  /\ UNCHANGED elapsed
             ELSE /\ elapsed' = elapsed + check_interval
                  /\ UNCHANGED <<results, monitoring, mon_k>>
    /\ UNCHANGED <<deployment_ids, details_ok, timeout_minutes, check_interval, summary, mon_pc>>
    /\ UNCHANGED not_monitor

\* lines 180-186: the deadline has passed
MonitorTimeout ==
    /\ mon_pc = "monitor"
    /\ monitoring
    /\ elapsed >= timeout_minutes * 60
    /\ results' = StoreResult(results, deployment_ids[mon_k], TimeoutResult(deployment_ids[mon_k]))
    /\ monitoring' = FALSE
    /\ mon_k' = mon_k + 1
    /\ UNCHANGED <<deployment_ids, details_ok, timeout_minutes, check_interval, elapsed,
                   latest, summary, mon_pc>>
    /\ UNCHANGED not_monitor

\* lines 207-243: the summary over the results
MonitorReport ==
    /\ mon_pc = "monitor"
    /\ ~monitoring
    /\ mon_k > Len(deployment_ids)
    /\ summary' = Summary(deployment_ids, results)
    /\ mon_pc' = "reported"
    /\ UNCHANGED <<deployment_ids, details_ok, timeout_minutes, check_interval, mon_k,
                   monitoring, elapsed, latest, results>>
    /\ UNCHANGED not_monitor

MonitorNext == MonitorBegin \/ MonitorPoll \/ MonitorTimeout \/ MonitorReport

MonitorSpec == MonitorInit /\ [][MonitorNext]_vars

\* the deployment monitored last, once its monitoring is over
LastMonitored == deployment_ids[mon_k - 1]

\* C28: every requested deployment is accounted for: each result is one of
\* Success, Failed, timeout, error, and success + failed + timeout + error is
\* the total, for every list of ids, repeated ids included; a final status
\* is returned only when the latest release is Success or Failed, and
\* timeout only once the deadline has passed
C28_EveryDeploymentAccounted ==
    /\ \A d \in DOMAIN results : StatusOf(results[d]) \in {"Success", "Failed", "timeout", "error"}
    /\ (mon_k > 1 /\ ~monitoring /\ mon_pc = "monitor") =>
          /\ "final_status" \in DOMAIN results[LastMonitored] =>
                latest \in {"Success", "Failed"} /\ results[LastMonitored].final_status = latest
          /\ StatusOf(results[LastMonitored]) = "timeout" =>
                latest \notin {"Success", "Failed"} /\ elapsed >= timeout_minutes * 60
    /\ mon_pc = "reported" =>
          summary.success + summary.failed + summary.timeout + summary.error = summary.total

----------------------------------------------------------------------------
(* scripts/manage-lifecycle.py, LifecycleManager: get_lifecycle_state      *)
(* (lines 58-72) and set_lifecycle_state (lines 74-97).  A manifest file   *)
(* is <<"file", text>>, its text a sequence of lines <<indentation, key,   *)
(* scalar text>>; a mapping is                                             *)
(* a sequence of <<key, value>> pairs, in the order of the file            *)
(* (yaml.dump is called with sort_keys=False).                             *)

FileOf(text) == <<"file", text>>

PyMap(pairs) == <<"map", pairs>>
EmptyMap == PyMap(<<>>)
IsMap(v) == v[1] = "map"

\* k in d
MapHas(d, k) == \E j \in 1..Len(d[2]) : d[2][j][1] = k

\* d.get(k, default)
MapGet(d, k, default) ==
    IF MapHas(d, k) THEN d[2][CHOOSE j \in 1..Len(d[2]) : d[2][j][1] = k][2] ELSE default

\* d[k] = v: an existing key keeps its place, a new key comes last
MapSet(d, k, v) ==
    IF MapHas(d, k)
    THEN PyMap([j \in 1..Len(d[2]) |-> IF d[2][j][1] = k THEN <<k, v>> ELSE d[2][j]])
    ELSE PyMap(Append(d[2], <<k, v>>))

\* the scalar a plain or quoted text resolves to (yaml.safe_load, YAML 1.1)
ScalarOf(token) ==
    CASE token \in {"", "null", "~"} -> PyNone
      [] token \in {"true", "yes", "on"} -> PyBool(TRUE)
      [] token \in {"false", "no", "off"} -> PyBool(FALSE)
      [] token = "0" -> PyInt(0)
      [] token = "1" -> PyInt(1)
      [] token = "{}" -> EmptyMap
      [] token = "[]" -> EmptyList
      [] \E s \in PlainUnsafe : token = "'" \o s \o "'" ->
            PyStr(CHOOSE s \in PlainUnsafe : token = "'" \o s \o "'")
      [] OTHER -> PyStr(token)

\* the scalar text yaml.dump writes for a value
ScalarText(v) == IF IsMap(v) THEN "{}" ELSE YamlScalar(v)

\* yaml.safe_load of a file's text, lines 80-81
SafeLoad(text) ==
    IF text = <<>> THEN PyNone
    ELSE IF text[1][2] = "-" THEN PyList([j \in 1..Len(text) |-> ScalarOf(text[j][3])])
    ELSE LET places == [j \in 1..Len(text) |-> j]
             tops == SelectSeq(places, LAMBDA j : text[j][1] = 0)
             below(j) == SelectSeq(places, LAMBDA n :
                             n > j /\ \A x \in (j + 1)..n : text[x][1] > 0)
             value(j) ==
                 IF text[j][3] # "" THEN ScalarOf(text[j][3])
                 ELSE IF Len(below(j)) = 0 THEN PyNone
                 ELSE PyMap([n \in 1..Len(below(j)) |->
                               <<text[below(j)[n]][2], ScalarOf(text[below(j)[n]][3])>>])
         IN  PyMap([t \in 1..Len(tops) |-> <<text[tops[t]][2], value(tops[t])>>])

\* yaml.dump(manifest, f, default_flow_style=False, sort_keys=False), line 89
SafeDump(manifest) ==
    LET entry(p) ==
            IF IsMap(p[2]) /\ Len(p[2][2]) > 0
            THEN <<<<0, p[1], "">>>> \o
                 [n \in 1..Len(p[2][2]) |-> <<2, p[2][2][n][1], ScalarText(p[2][2][n][2])>>]
            ELSE <<<<0, p[1], ScalarText(p[2])>>>>
    IN  Flatten([j \in 1..Len(manifest[2]) |-> entry(manifest[2][j])])

\* lines 64 and 76: the lifecycle states
LifecycleStates == {"draft", "testonly", "production", "undeploy"}

\* str.lower() on the texts of the manifests below
Lower(s) ==
    CASE s = "Production" -> "production"
      [] s = "DRAFT" -> "draft"
      [] OTHER -> s

Raised == "raised"

\* lines 58-72; .get on a value that is no dict and .lower on a value that
\* is no str raise AttributeError
get_lifecycle_state(manifest) ==
    IF ~IsMap(manifest) THEN Raised
    ELSE LET metadata == MapGet(manifest, "metadata", EmptyMap)
         IN  IF ~IsMap(metadata) THEN Raised
             ELSE LET lifecycle == MapGet(metadata, "lifecycle", PyStr(""))
                  IN  IF lifecycle[1] # "str" THEN Raised
                      ELSE IF Lower(lifecycle[2]) \in LifecycleStates
                      THEN Lower(lifecycle[2])
                      ELSE IF Truthy(MapGet(metadata, "draft", PyBool(FALSE))) THEN "draft"
                      ELSE "production"

\* lines 83-86 raise TypeError unless the manifest and its metadata are dicts
SetRaises(file) ==
    \/ file \in {Absent, BadYaml}
    \/ ~IsMap(SafeLoad(file[2]))
    \/ /\ MapHas(SafeLoad(file[2]), "metadata")
       /\ ~IsMap(MapGet(SafeLoad(file[2]), "metadata", EmptyMap))

\* lines 83-86
WithLifecycle(manifest, state) ==
    LET with_metadata == IF MapHas(manifest, "metadata") THEN manifest
                         ELSE MapSet(manifest, "metadata", EmptyMap)
    IN  MapSet(with_metadata, "metadata",
               MapSet(MapGet(with_metadata, "metadata", EmptyMap), "lifecycle", PyStr(state)))

\* the manifests on disk: the lines in front of and under metadata
TypeLine == <<0, "type", "Application">>
MetadataTexts ==
    {<<TypeLine, <<0, "metadata", "">>, <<2, "name", "demo">>>> \o lifecycle \o draft :
        lifecycle \in {<<>>} \cup {<<<<2, "lifecycle", t>>>> :
            t \in {"", "draft", "Production", "testonly", "undeploy", "staging", "1",
                   "true", "'true'"}},
        draft \in {<<>>, <<<<2, "draft", "true">>>>, <<<<2, "draft", "false">>>>}}
ManifestTexts ==
    MetadataTexts \cup
    {<<>>, <<<<0, "-", "a">>>>, <<TypeLine>>, <<TypeLine, <<0, "metadata", "">>>>,
     <<<<0, "metadata", "{}">>, TypeLine>>, <<TypeLine, <<0, "metadata", "demo">>>>}
ManifestFiles == {FileOf(text) : text \in ManifestTexts} \cup {Absent, BadYaml}

NotCalled == "not called"

LifecycleInit ==
    /\ lc_file \in ManifestFiles
    /\ lc_before = lc_file
    /\ new_state \in LifecycleStates \cup {"staging", "Draft"}
    /\ lc_set = NotCalled
    /\ lc_manifest = Absent
    /\ lc_state = NotCalled
    /\ lc_pc = "start"
    /\ compile_at_rest /\ run_at_rest /\ pm_at_rest /\ lookup_at_rest /\ cleanup_at_rest
    /\ testdeploy_at_rest /\ monitor_at_rest

\* lines 74-97: set_lifecycle_state(file_path, new_state)
LifecycleSet ==
    /\ lc_pc = "start"
    /\ IF new_state \notin LifecycleStates \/ SetRaises(lc_file)
       THEN /\ lc_set' = "False"
            /\ UNCHANGED lc_file
       ELSE /\ lc_file' = FileOf(SafeDump(WithLifecycle(SafeLoad(lc_file[2]), new_state)))
            /\ lc_set' = "True"
    /\ lc_pc' = "set"
    /\ UNCHANGED <<lc_before, new_state, lc_manifest, lc_state>>
    /\ UNCHANGED not_lifecycle

\* lines 35-40: the file is read and get_lifecycle_state is called with what
\* yaml.safe_load returned
LifecycleGet ==
    /\ lc_pc \in {"start", "set"}
    /\ lc_file \notin {Absent, BadYaml}
    /\ lc_manifest' = SafeLoad(lc_file[2])
    /\ lc_state' = get_lifecycle_state(lc_manifest')
    /\ lc_pc' = "got"
    /\ UNCHANGED <<lc_before, lc_file, new_state, lc_set>>
    /\ UNCHANGED not_lifecycle

LifecycleNext == LifecycleSet \/ LifecycleGet

LifecycleSpec == LifecycleInit /\ [][LifecycleNext]_vars

\* the explicit state of a manifest, "" without a valid one
ExplicitState(manifest) ==
    LET lifecycle == MapGet(MapGet(manifest, "metadata", EmptyMap), "lifecycle", PyStr(""))
    IN  IF lifecycle[1] = "str" /\ Lower(lifecycle[2]) \in LifecycleStates
        THEN Lower(lifecycle[2]) ELSE ""

\* the manifest has a metadata mapping with the legacy flag set
LegacyDraft(manifest) ==
    /\ IsMap(MapGet(manifest, "metadata", EmptyMap))
    /\ Truthy(MapGet(MapGet(manifest, "metadata", EmptyMap), "draft", PyBool(FALSE)))

\* get_lifecycle_state returns a state for every manifest that is a mapping
AlwaysAState ==
    (lc_pc = "got" /\ IsMap(lc_manifest)) =>
        /\ lc_state \in LifecycleStates
        /\ ExplicitState(lc_manifest) # "" => lc_state = ExplicitState(lc_manifest)
        /\ ExplicitState(lc_manifest) = "" =>
              lc_state = IF LegacyDraft(lc_manifest) THEN "draft" ELSE "production"

\* after a set that succeeded, the file read again gives the state set
RoundTrip == (lc_pc = "got" /\ lc_set = "True") => lc_state = new_state

\* an invalid state gives False and the file as it was
InvalidStateRefused ==
    (lc_set # NotCalled /\ new_state \notin LifecycleStates) =>
        lc_set = "False" /\ lc_file = lc_before

\* C30: get_lifecycle_state always returns one of draft, testonly,
\* production, undeploy (production by default, the legacy draft flag only
\* without a valid explicit state); after set_lifecycle_state(file, s) has
\* succeeded for a valid s, get_lifecycle_state of the file read again is s;
\* set_lifecycle_state with an invalid state returns False and leaves the
\* file unchanged
C30_LifecycleRoundTrip == AlwaysAState /\ RoundTrip /\ InvalidStateRefused

====
